---- MODULE Spec2Model ----
(***************************************************************************)
(* State-machine model of the log aggregation pipeline.                    *)
(*                                                                         *)
(* Each subsystem has its own variables, initial predicate, next-state     *)
(* relation and specification:                                             *)
(*   SpecShipper    shipper: batching, retry, circuit breaker, Close       *)
(*   SpecStore      file store: Write, Get, restart on the same directory  *)
(*   SpecDelete     file store: Write, restart, Delete                      *)
(*   SpecRateLimit  receiver: the per-agent token bucket                   *)
(*   SpecReceiver   receiver, pipeline worker and storage writer           *)
(*   SpecPipeline   pipeline workers: stages, counters, outbound channel    *)
(*   SpecQuery      query engine: cache, sort, pagination over the store   *)
(*   SpecSearch     one Engine.Query call over a written store: order, page *)
(*   SpecRange      one FileStore.Query call: the time range                *)
(*   SpecTailer     file tailer: read loop, rotation, Stop and restart      *)
(*   SpecReaders    file tailer: RemoveFile and AddFile while it runs       *)
(*   SpecSilent     file tailer: the file is replaced, no event, fair steps *)
(*   SpecBuffer     agent buffer: memory with overflow, disk segments       *)
(*   SpecDiskBuffer the disk buffer closed and constructed again            *)
(*   SpecClone      log entries as Go values: AddField, AddTag, Clone       *)
(*   SpecStop       Shipper.Close, Pipeline.Stop, FileTailer.Stop, fair     *)
(*   SpecCache      the query cache on its own: set, ClearCache, the clock  *)
(*   SpecReopen     file store: Write, restart, Query with a Limit          *)
(*   SpecAggregate  Engine.Aggregate over a written store                   *)
(*   SpecRotate     file tailer: the read loop step by step, rotation       *)
(*   SpecLocks      mutexes and channel sends of all packages               *)
(* In each specification the other subsystems stay as constructed.         *)
(***************************************************************************)
EXTENDS Integers, Sequences, FiniteSets, TLC

(***************************************************************************)
(* Generic helpers                                                         *)
(***************************************************************************)
Range(s) == {s[i] : i \in 1..Len(s)}

Min(a, b) == IF a < b THEN a ELSE b

RECURSIVE Pow2(_)
Pow2(n) == IF n = 0 THEN 1 ELSE 2 * Pow2(n - 1)

(***************************************************************************)
(* State                                                                   *)
(***************************************************************************)

\* Shipper
VARIABLES
    shipCfg,     \* s.config: FailureThreshold, SuccessThreshold, MaxRetries, BatchSize
    inputChan,   \* s.inputChan: buffered channel of entries
    chanClosed,  \* close(s.inputChan) has run
    ctxDone,     \* s.ctx is cancelled
    batch,       \* s.batch.Entries
    endpoints,   \* s.endpoints: per endpoint the circuit breaker fields; lastFailure
                 \* is kept as sinceFailure = time.Since(lastFailure)
                 \* (ep.failures is only written, and read by Stats: left out)
    task,        \* the processBatches goroutine: position and locals
    closePc,     \* position of the caller of Close
    panicked,    \* the process died on a send on a closed channel
    up,          \* environment: the endpoints that always answer 2xx;
                 \* the others answer 2xx or fail, request by request
    nextEntry,   \* number of Ship calls made so far
    shipLog      \* observations: what was accepted, handed over, delivered, ...

shipVars == <<shipCfg, inputChan, chanClosed, ctxDone, batch, endpoints,
              task, closePc, panicked, up, nextEntry, shipLog>>

\* File store (package storage, in src/internal/agent/collector/syslog.go)
VARIABLES
    files,       \* the partition files on disk: path -> sequence of gob messages
    partitions,  \* fs.partitions: map key -> partition (path, times, encoder state)
    index,       \* fs.index.entries: id -> indexEntry
    fsStats,     \* fs.stats
    fsLog        \* observations: entries written in this lifetime, last Get

storeVars == <<files, partitions, index, fsStats, fsLog>>

\* Receiver (src/unnamed/part_003, package receiver)
VARIABLES
    rcvCfg,      \* r.config: RateLimit, MaxBatchSize, RequireAuth
    reqs,        \* the HTTP requests: position of each handler and its locals
    output,      \* r.output: the channel the receiver feeds (receiverOutput)
    rcvCtx,      \* "running"; "cancelled" once r.cancel() ran; "shutdown" once
                 \* the HTTP server stopped accepting requests
    rcvStats,    \* r.stats: RequestsReceived, LogsReceived, Errors
    rateLimits,  \* r.rateLimits: agent -> rateLimiter; lastRefill is kept as
                 \* sinceRefill = time.Since(lastRefill)
    rlLog        \* observations: per agent, the ages of the requests the rate
                 \* limiter allowed during the last second

rcvVars == <<rcvCfg, reqs, output, rcvCtx, rcvStats, rateLimits, rlLog>>

\* Pipeline (src/internal/pipeline/pipeline.go) and the storage writer
\* goroutine of the server (src/unnamed/part_000)
VARIABLES
    pipeCfg,         \* the pipeline's Config: Workers, and per stage (the
                     \* parser if any, then the processors in order) the
                     \* entries for which the stage returns an error
    workers,         \* the worker goroutines: position and the entry in hand
    pipeCtxDone,     \* p.ctx is cancelled
    pipelineOutput,  \* p.output: the channel the storage writer drains
    pipeStats,       \* p.stats: Processed, Failed, Dropped
    pipeLog          \* observations: entries fed, consumed and emitted, and
                     \* how the last entry taken fared

pipeVars == <<pipeCfg, workers, pipeCtxDone, pipelineOutput, pipeStats, pipeLog>>

\* Query engine (src/internal/query/query.go, package query)
VARIABLES
    qCfg,     \* the engine's Config: CacheSize
    cache,    \* e.cache.entries: key -> cacheEntry; timestamp is kept as
              \* age = time.Since(timestamp)
    callers,  \* the goroutines inside Engine.Query: position and locals
    qLog      \* observations: what was cached and returned last, per key

queryVars == <<qCfg, cache, callers, qLog>>

\* File tailer (src/unnamed/part_004, package tailer)
VARIABLES
    fsys,       \* the log directory: the bytes of each file (by inode) and the
                \* inode the tracked path names now
    stateFile,  \* the document at config.StateFile, or NoStateFile
    ft,         \* the FileTailer of the running process: states[path],
                \* files[path], ctx, and the position of the program using it
    tail,       \* the tailFile goroutines: position and locals of each
    tlOutput,   \* ft.output: the channel the tailer emits lines on
    events,     \* ft.watcher.Events: rename events not handled yet
    tlLog       \* observations: the lines emitted, per process lifetime

tailVars == <<fsys, stateFile, ft, tail, tlOutput, events, tlLog>>

\* Buffer (src/internal/agent/buffer/buffer.go, package buffer)
VARIABLES
    buf,       \* the buffer: its kind and configuration, entries, currentSize
    bufFiles,  \* the segment files under the buffer's path, oldest first
    bufLog     \* observations: the IDs Add and AddBatch appended, the IDs
               \* given to Remove, the last operation

bufVars == <<buf, bufFiles, bufLog>>

\* One Engine.Query call, observed (src/internal/query/query.go)
VARIABLES
    searchLog  \* observations: the last Query call, what the store gave it
               \* and what it returned

searchVars == <<searchLog>>

\* Log entries as Go values (src/pkg/models/log_entry.go)
VARIABLES
    heap,      \* the maps that field values refer to: a map[string]interface{}
               \* is a reference, every holder of it sees the same map
    original,  \* *LogEntry: the entry Clone is called on
    clone,     \* *LogEntry: the entry Clone returned
    cloneLog   \* observations: Clone ran, and what the original was then

cloneVars == <<heap, original, clone, cloneLog>>

\* Mutexes and channel sends of all packages
VARIABLES
    goroutines,  \* the goroutines: the function each one runs, the next
                 \* lock or send operation of it, and whether it waits in
                 \* the second select of sendBatch
    mutexes,     \* each sync.RWMutex: the goroutine that holds it for
                 \* writing (0: none) and the goroutines that hold it for
                 \* reading
    chanLen,     \* len() of each output channel
    consuming,   \* the consumers of the channels still receive
    cancelled    \* the contexts are cancelled
lockVars == <<goroutines, mutexes, chanLen, consuming, cancelled>>

vars == <<shipVars, storeVars, rcvVars, pipeVars, queryVars, tailVars, bufVars,
          searchVars, cloneVars, lockVars>>

\* what the actions of one subsystem leave alone
shipOthers == <<storeVars, rcvVars, pipeVars, queryVars, tailVars, bufVars,
    searchVars, cloneVars, lockVars>>
storeOthers == <<shipVars, rcvVars, pipeVars, queryVars, tailVars, bufVars,
    searchVars, cloneVars, lockVars>>
rcvOthers == <<shipVars, storeVars, pipeVars, queryVars, tailVars, bufVars,
    searchVars, cloneVars, lockVars>>
pipeOthers == <<shipVars, storeVars, rcvVars, queryVars, tailVars, bufVars,
    searchVars, cloneVars, lockVars>>
queryOthers == <<shipVars, storeVars, rcvVars, pipeVars, tailVars, bufVars,
    searchVars, cloneVars, lockVars>>
tailOthers == <<shipVars, storeVars, rcvVars, pipeVars, queryVars, bufVars,
    searchVars, cloneVars, lockVars>>
bufOthers == <<shipVars, storeVars, rcvVars, pipeVars, queryVars, tailVars,
    searchVars, cloneVars, lockVars>>

(***************************************************************************)
(* SHIPPER  (src/internal/query/query.go, package shipper)                 *)
(*                                                                         *)
(* One producer calls Ship, one goroutine runs processBatches, one caller  *)
(* runs Close.  Time is kept as the durations the code compares: the time  *)
(* elapsed since an endpoint's last failure (saturated just above          *)
(* OpenTimeout) and the time a backoff sleep still has to run.  The        *)
(* ticker may fire at any moment: BatchTimeout is arbitrary.               *)
(***************************************************************************)

\* Bounds of the shipper model.
NumEndpoints == 2
MaxEntries == 3
MaxThreshold == 2
MaxRetriesCfg == 1
MaxBatchCfg == 2

\* Durations of the shipper configuration, in clock ticks.
OpenTimeout == 1
RetryBackoff == 1

Endpoints == 1..NumEndpoints

\* circuitState (iota constants)
circuitClosed == 0
circuitOpen == 1
circuitHalfOpen == 2


\* an elapsed time is tracked up to here; beyond it every comparison is decided
LongAgo == OpenTimeout + 1

\* make(chan *models.LogEntry, config.BatchSize*2)
QueueCap == shipCfg.BatchSize * 2

\* &endpoint{url: url, state: circuitClosed}; lastFailure is time.Time{}
NewEndpoint ==
    [state |-> circuitClosed, successes |-> 0,
     sinceFailure |-> LongAgo, consecutiveFail |-> 0]

IdleTask == [pc |-> "select", batch |-> <<>>, attempt |-> 0, ep |-> 0,
             sleepLeft |-> 0, final |-> FALSE, sends |-> 0]

NewShipLog ==
    [shipped |-> {},      \* entries for which Ship returned nil
     handed |-> {},       \* entries of batches handed to sendWithRetry
     delivered |-> {},    \* entries of batches an endpoint accepted
     gaveUp |-> 0,        \* sends made for the last batch sendWithRetry gave up (else 0)
     hoSucc |-> [e \in Endpoints |-> 0],  \* successes recorded in the current HalfOpen
     closedAfter |-> 0,   \* last recordSuccess closed a HalfOpen endpoint: after
                          \* this many successes in HalfOpen (else 0)
     selElapsed |-> 0,    \* endpoint being sent to: time since its last failure
                          \* when selectEndpoint returned it
     selStreak |-> 0,     \* ... and its failures in a row at that moment
     closeCalled |-> FALSE,
     residual |-> <<>>,   \* s.batch when Close was called
     accepting |-> {}]    \* endpoints eligible and answering 2xx when Close was called

ShipperInit ==
    /\ shipCfg \in [FailureThreshold : 1..MaxThreshold,
                    SuccessThreshold : 1..MaxThreshold,
                    MaxRetries : 0..MaxRetriesCfg,
                    BatchSize : 1..MaxBatchCfg]
    /\ inputChan = <<>>
    /\ chanClosed = FALSE
    /\ ctxDone = FALSE
    /\ batch = <<>>
    /\ endpoints = [e \in Endpoints |-> NewEndpoint]
    /\ task = IdleTask
    /\ closePc = "idle"
    /\ panicked = FALSE
    /\ up \in SUBSET Endpoints
    /\ nextEntry = 0
    /\ shipLog = NewShipLog

(* Ship: select { case s.inputChan <- entry | case <-s.ctx.Done() | default } *)

\* case s.inputChan <- entry: return nil
ShipEnqueue ==
    /\ ~panicked
    /\ nextEntry < MaxEntries
    /\ ~chanClosed /\ Len(inputChan) < QueueCap
    /\ nextEntry' = nextEntry + 1
    /\ inputChan' = Append(inputChan, nextEntry + 1)
    /\ shipLog' = [shipLog EXCEPT !.shipped = @ \cup {nextEntry + 1}]
    /\ UNCHANGED <<shipCfg, chanClosed, ctxDone, batch, endpoints, task,
                   closePc, panicked, up, shipOthers>>

\* case <-s.ctx.Done(): return "shipper is closed"
ShipClosedError ==
    /\ ~panicked
    /\ nextEntry < MaxEntries
    /\ ctxDone
    /\ nextEntry' = nextEntry + 1
    /\ UNCHANGED <<shipCfg, inputChan, chanClosed, ctxDone, batch, endpoints,
                   task, closePc, panicked, up, shipLog, shipOthers>>

\* default: return models.ErrBufferFull
ShipBufferFull ==
    /\ ~panicked
    /\ nextEntry < MaxEntries
    /\ ~ctxDone /\ ~chanClosed /\ Len(inputChan) >= QueueCap
    /\ nextEntry' = nextEntry + 1
    /\ UNCHANGED <<shipCfg, inputChan, chanClosed, ctxDone, batch, endpoints,
                   task, closePc, panicked, up, shipLog, shipOthers>>

\* case s.inputChan <- entry on the closed channel: panic
ShipPanic ==
    /\ ~panicked
    /\ nextEntry < MaxEntries
    /\ chanClosed
    /\ nextEntry' = nextEntry + 1
    /\ panicked' = TRUE
    /\ UNCHANGED <<shipCfg, inputChan, chanClosed, ctxDone, batch, endpoints,
                   task, closePc, up, shipLog, shipOthers>>

(* processBatches: the select loop, sendCurrentBatch, sendWithRetry *)

\* sendWithRetry has returned (nil or an error) to sendCurrentBatch, and that to
\* processBatches: the ctx.Done branch returns, the others loop
Returned(final) == [IdleTask EXCEPT !.pc = IF final THEN "exited" ELSE "select"]

\* sendCurrentBatch with s.batch = b
SendCurrentBatch(b, final) ==
    IF b = <<>>
    THEN /\ task' = Returned(final)
         /\ batch' = <<>>
         /\ UNCHANGED shipLog
    ELSE /\ task' = [IdleTask EXCEPT !.pc = "attempt", !.batch = b, !.final = final]
         /\ batch' = <<>>
         /\ shipLog' = [shipLog EXCEPT !.handed = @ \cup Range(b)]

\* case <-s.ctx.Done(): send remaining batch, return
ProcessDone ==
    /\ ~panicked
    /\ task.pc = "select"
    /\ ctxDone
    /\ SendCurrentBatch(batch, TRUE)
    /\ UNCHANGED <<shipCfg, inputChan, chanClosed, ctxDone, endpoints,
                   closePc, panicked, up, nextEntry, shipOthers>>

\* shouldSend := s.batch.Size() >= s.config.BatchSize
ShouldSend(b) == Len(b) >= shipCfg.BatchSize

\* case entry := <-s.inputChan
ProcessEntry ==
    /\ ~panicked
    /\ task.pc = "select"
    /\ inputChan # <<>>
    /\ inputChan' = Tail(inputChan)
    /\ LET b == Append(batch, Head(inputChan)) IN
         IF ShouldSend(b)
         THEN SendCurrentBatch(b, FALSE)
         ELSE /\ batch' = b
              /\ UNCHANGED <<task, shipLog>>
    /\ UNCHANGED <<shipCfg, chanClosed, ctxDone, endpoints,
                   closePc, panicked, up, nextEntry, shipOthers>>

\* case <-ticker.C
ProcessTick ==
    /\ ~panicked
    /\ task.pc = "select"
    /\ SendCurrentBatch(batch, FALSE)
    /\ UNCHANGED <<shipCfg, inputChan, chanClosed, ctxDone, endpoints,
                   closePc, panicked, up, nextEntry, shipOthers>>

\* time.Since(lastFailure) > s.config.OpenTimeout
OpenExpiredEarly(e) == endpoints[e].sinceFailure >= OpenTimeout
OpenExpired(e) == endpoints[e].sinceFailure > OpenTimeout

\* the endpoints selectEndpoint moves from Open to HalfOpen
Reopened == {e \in Endpoints : endpoints[e].state = circuitOpen /\ OpenExpired(e)}

\* the list `available` built by selectEndpoint
Available ==
    {e \in Endpoints : endpoints[e].state \in {circuitClosed, circuitHalfOpen}}
        \cup Reopened

\* ep := s.selectEndpoint(); if ep == nil { return error }
SelectEndpoint ==
    /\ ~panicked
    /\ task.pc = "attempt"
    /\ endpoints' = [e \in Endpoints |->
                       IF e \in Reopened
                       THEN [endpoints[e] EXCEPT !.state = circuitHalfOpen]
                       ELSE endpoints[e]]
    /\ IF Available = {}
       THEN /\ task' = Returned(task.final)
            /\ shipLog' = [shipLog EXCEPT !.gaveUp = task.sends]
       ELSE \E e \in Available :
              /\ task' = [task EXCEPT !.pc = "send", !.ep = e]
              /\ shipLog' = [shipLog EXCEPT
                               !.selElapsed = endpoints[e].sinceFailure,
                               !.selStreak = endpoints[e].consecutiveFail,
                               !.hoSucc = [x \in Endpoints |->
                                             IF x \in Reopened THEN 0 ELSE @[x]]]
    /\ UNCHANGED <<shipCfg, inputChan, chanClosed, ctxDone, batch,
                   closePc, panicked, up, nextEntry, shipOthers>>

\* recordSuccess
RecordSuccess(ep) ==
    LET s1 == [ep EXCEPT !.successes = @ + 1, !.consecutiveFail = 0] IN
    IF s1.state = circuitHalfOpen /\ s1.successes >= shipCfg.SuccessThreshold
    THEN [s1 EXCEPT !.state = circuitClosed, !.successes = 0]
    ELSE s1

\* recordFailure with a breaker that opens one failure late
RecordFailureLate(ep) ==
    LET f1 == [ep EXCEPT !.consecutiveFail = @ + 1, !.sinceFailure = 0] IN
    IF f1.state = circuitHalfOpen
    THEN [f1 EXCEPT !.state = circuitOpen, !.successes = 0]
    ELSE IF f1.consecutiveFail > shipCfg.FailureThreshold
         THEN [f1 EXCEPT !.state = circuitOpen]
         ELSE f1

\* recordFailure; ep.lastFailure = time.Now()
RecordFailure(ep) ==
    LET f1 == [ep EXCEPT !.consecutiveFail = @ + 1, !.sinceFailure = 0] IN
    IF f1.state = circuitHalfOpen
    THEN [f1 EXCEPT !.state = circuitOpen, !.successes = 0]
    ELSE IF f1.consecutiveFail >= shipCfg.FailureThreshold
         THEN [f1 EXCEPT !.state = circuitOpen]
         ELSE f1

\* send: the request is built with s.ctx (http.NewRequestWithContext), so client.Do
\* fails at once when s.ctx is cancelled; otherwise the endpoint decides
SendMaySucceed(e) == ~ctxDone
SendMayFail(e) == ctxDone \/ e \notin up

\* err := s.send(ep, batch) returns nil; s.recordSuccess(ep); return nil
SendOk ==
    /\ ~panicked
    /\ task.pc = "send"
    /\ SendMaySucceed(task.ep)
    /\ LET e == task.ep
           old == endpoints[e]
           new == RecordSuccess(old)
           inHalfOpen == old.state = circuitHalfOpen IN
         /\ endpoints' = [endpoints EXCEPT ![e] = new]
         /\ task' = Returned(task.final)
         /\ shipLog' = [shipLog EXCEPT
               !.delivered = @ \cup Range(task.batch),
               !.gaveUp = 0,
               !.selElapsed = 0,
               !.selStreak = 0,
               !.hoSucc[e] = IF inHalfOpen /\ new.state = circuitHalfOpen
                             THEN @ + 1 ELSE 0,
               !.closedAfter = IF inHalfOpen /\ new.state = circuitClosed
                               THEN shipLog.hoSucc[e] + 1 ELSE 0]
    /\ UNCHANGED <<shipCfg, inputChan, chanClosed, ctxDone, batch,
                   closePc, panicked, up, nextEntry, shipOthers>>

\* for attempt := 0; attempt <= s.config.MaxRetries; attempt++
LoopContinues(attempt) == attempt <= shipCfg.MaxRetries

\* backoff := s.config.RetryBackoff * time.Duration(1<<uint(attempt))
Backoff(attempt) == RetryBackoff * Pow2(attempt)

\* err := s.send(ep, batch) returns an error; s.recordFailure(ep); then
\* if attempt < s.config.MaxRetries { time.Sleep(backoff) }, attempt++, loop test
SendFail ==
    /\ ~panicked
    /\ task.pc = "send"
    /\ SendMayFail(task.ep)
    /\ LET e == task.ep IN
         /\ endpoints' = [endpoints EXCEPT ![e] = RecordFailure(endpoints[e])]
         /\ IF task.attempt < shipCfg.MaxRetries
            THEN /\ task' = [task EXCEPT !.pc = "sleep", !.sends = @ + 1,
                                         !.sleepLeft = Backoff(task.attempt)]
                 /\ shipLog' = [shipLog EXCEPT !.selElapsed = 0, !.selStreak = 0,
                                               !.hoSucc[e] = 0, !.closedAfter = 0]
            ELSE IF LoopContinues(task.attempt + 1)
            THEN /\ task' = [task EXCEPT !.pc = "attempt", !.sends = @ + 1,
                                         !.attempt = @ + 1]
                 /\ shipLog' = [shipLog EXCEPT !.selElapsed = 0, !.selStreak = 0,
                                               !.hoSucc[e] = 0, !.closedAfter = 0]
            ELSE /\ task' = Returned(task.final)
                 /\ shipLog' = [shipLog EXCEPT !.selElapsed = 0, !.selStreak = 0,
                                               !.hoSucc[e] = 0, !.closedAfter = 0,
                                               !.gaveUp = task.sends + 1]
    /\ UNCHANGED <<shipCfg, inputChan, chanClosed, ctxDone, batch,
                   closePc, panicked, up, nextEntry, shipOthers>>

\* time.Sleep(backoff) returns; attempt++; the loop test
Wake ==
    /\ ~panicked
    /\ task.pc = "sleep"
    /\ task.sleepLeft = 0
    /\ IF LoopContinues(task.attempt + 1)
       THEN /\ task' = [task EXCEPT !.pc = "attempt", !.attempt = @ + 1]
            /\ UNCHANGED shipLog
       ELSE /\ task' = Returned(task.final)
            /\ shipLog' = [shipLog EXCEPT !.gaveUp = task.sends]
    /\ UNCHANGED <<shipCfg, inputChan, chanClosed, ctxDone, batch, endpoints,
                   closePc, panicked, up, nextEntry, shipOthers>>

\* Close: s.cancel()
CloseCancel ==
    /\ ~panicked
    /\ closePc = "idle"
    /\ closePc' = "wait"
    /\ ctxDone' = TRUE
    /\ shipLog' = [shipLog EXCEPT !.closeCalled = TRUE,
                                  !.residual = batch,
                                  !.accepting = Available \cap up]
    /\ UNCHANGED <<shipCfg, inputChan, chanClosed, batch, endpoints, task,
                   panicked, up, nextEntry, shipOthers>>

\* Close: s.wg.Wait(); close(s.inputChan); return nil
CloseReturn ==
    /\ ~panicked
    /\ closePc = "wait"
    /\ task.pc = "exited"
    /\ closePc' = "returned"
    /\ chanClosed' = TRUE
    /\ UNCHANGED <<shipCfg, inputChan, ctxDone, batch, endpoints, task,
                   panicked, up, nextEntry, shipLog, shipOthers>>

\* one clock tick passes
AdvanceTime ==
    /\ ~panicked
    /\ endpoints' = [e \in Endpoints |->
                       [endpoints[e] EXCEPT !.sinceFailure = Min(@ + 1, LongAgo)]]
    /\ task' = [task EXCEPT !.sleepLeft = IF @ > 0 THEN @ - 1 ELSE 0]
    /\ UNCHANGED <<shipCfg, inputChan, chanClosed, ctxDone, batch,
                   closePc, panicked, up, nextEntry, shipLog, shipOthers>>

ShipperNext ==
    \/ ShipEnqueue
    \/ ShipClosedError
    \/ ShipBufferFull
    \/ ShipPanic
    \/ ProcessDone
    \/ ProcessEntry
    \/ ProcessTick
    \/ SelectEndpoint
    \/ SendOk
    \/ SendFail
    \/ Wake
    \/ CloseCancel
    \/ CloseReturn
    \/ AdvanceTime


(***************************************************************************)
(* Shipper: properties                                                     *)
(***************************************************************************)

\* a Ship call returns in this step
ShipReturns == nextEntry' = nextEntry + 1

\* C38: Ship never sends on the closed queue (the process does not panic),
\* and a Ship call that returns after Close has cancelled the context
\* returns the "shipper is closed" error: it queues nothing and reports no
\* success.
C38_ShipAfterCloseIsRefused ==
    /\ [](~panicked)
    /\ [][(ctxDone /\ ShipReturns) =>
              /\ ~panicked'
              /\ inputChan' = inputChan
              /\ shipLog'.shipped = shipLog.shipped]_vars

\* before Close is called the process does not panic
NoPanicBeforeClose == ~shipLog.closeCalled => ~panicked

\* sendWithRetry returns an error in this step: the batch is gone and no
\* endpoint accepted it
BatchDiscarded ==
    /\ task.batch # <<>>
    /\ task'.batch = <<>>
    /\ ~(Range(task.batch) \subseteq shipLog'.delivered)

\* C40: a batch is discarded only after at least one send attempt; when
\* selectEndpoint finds no eligible endpoint (every endpoint Open, its
\* OpenTimeout not elapsed) sendWithRetry keeps the batch.
C40_NoDiscardWithoutSend ==
    /\ [][BatchDiscarded => shipLog'.gaveUp >= 1]_vars
    /\ [][(task.pc = "attempt" /\ Available = {} /\ task'.pc # "attempt")
             => task'.batch = task.batch]_vars

\* a batch discarded while an endpoint was eligible has been sent at least
\* once
DiscardAfterSendWhenEligible ==
    [][(BatchDiscarded /\ Available # {}) => shipLog'.gaveUp >= 1]_vars

\* C1: an endpoint with FailureThreshold or more failures in a row is returned by
\* selectEndpoint only when more than OpenTimeout has elapsed since its last
\* recorded failure.
C1_OpenEndpointNotSelected ==
    (task.pc = "send" /\ shipLog.selStreak >= shipCfg.FailureThreshold)
        => shipLog.selElapsed > OpenTimeout

\* an endpoint that failed FailureThreshold times in a row is selected again
C1_Witness ==
    /\ task.pc = "send"
    /\ shipLog.selStreak >= shipCfg.FailureThreshold
    /\ endpoints[task.ep].state = circuitHalfOpen

\* C2: a HalfOpen endpoint returns to Closed exactly when SuccessThreshold
\* successes have been recorded while it was HalfOpen, not with fewer.
C2_ClosedAfterThresholdSuccesses ==
    /\ shipLog.closedAfter # 0 => shipLog.closedAfter = shipCfg.SuccessThreshold
    /\ \A e \in Endpoints :
         endpoints[e].state = circuitHalfOpen
            => shipLog.hoSucc[e] < shipCfg.SuccessThreshold

\* C3: for MaxRetries >= 1, sendWithRetry makes at most MaxRetries send attempts
\* for one batch.
C3_AtMostMaxRetriesSends ==
    shipCfg.MaxRetries >= 1
        => /\ task.sends <= shipCfg.MaxRetries
           /\ shipLog.gaveUp <= shipCfg.MaxRetries

\* C4: if Close is called while the current batch is non-empty and some endpoint
\* is eligible and would accept it, the batch has been delivered when Close returns.
C4_ResidualBatchDelivered ==
    (closePc = "returned" /\ shipLog.residual # <<>> /\ shipLog.accepting # {})
        => Range(shipLog.residual) \subseteq shipLog.delivered

\* C5: every entry for which Ship returned nil has been put in a batch handed to
\* sendWithRetry by the time processBatches has exited and Close has returned.
C5_AcceptedEntriesHanded ==
    closePc = "returned" => shipLog.shipped \subseteq shipLog.handed

\* a Closed endpoint has fewer than FailureThreshold failures in a row
ClosedBelowThreshold ==
    \A e \in Endpoints :
        endpoints[e].state = circuitClosed
            => endpoints[e].consecutiveFail < shipCfg.FailureThreshold

\* what recordFailure and recordSuccess do to the endpoint sent to
BreakerStep ==
    LET old == endpoints[task.ep]
        new == endpoints'[task.ep]
    IN  /\ SendFail =>
              /\ old.state = circuitClosed =>
                     (new.state = circuitOpen
                        <=> old.consecutiveFail + 1 = shipCfg.FailureThreshold)
              /\ old.state = circuitClosed /\ new.state # circuitOpen
                     => new.state = circuitClosed
              /\ old.state = circuitHalfOpen => new.state = circuitOpen
              /\ new.consecutiveFail = old.consecutiveFail + 1
        /\ SendOk => new.consecutiveFail = 0

MaxIds == 3
MaxTs == 2
MaxWrites == 3
MaxRestarts == 1

\* fs.config.PartitionInterval, in clock ticks
PartitionInterval == 2

\* length in bytes of the gob messages that describe the LogEntry type
TypeDefLen == 2

Ids == 1..MaxIds
Times == 0..MaxTs
LogEntries == [id : Ids, ts : Times]
NoEntry == [id |-> 0, ts |-> 0]

\* time.Time{}: before every timestamp
ZeroTime == 0 - 1

\* t.Truncate(fs.config.PartitionInterval)
Truncate(t) == t - (t % PartitionInterval)

\* filepath.Join(Path, "partition_" + partTime.Format("2006-01-02-15") + ".gob"):
\* a path is identified by the partition time in its name
PathOf(partTime) == partTime

\* the two forms of key used in fs.partitions
FormatKey(partTime) == <<"key", partTime>>
BaseKey(path) == <<"base", path>>

TypeMsg == [kind |-> "type", entry |-> NoEntry, len |-> TypeDefLen]

\* the length of an encoded value depends on its content
ValueMsg(e) == [kind |-> "value", entry |-> e, len |-> 1 + e.id]

\* part.encoder.Encode(entry): the bytes one Encode call appends
Encode(typesSent, e) ==
    IF typesSent THEN <<ValueMsg(e)>> ELSE <<TypeMsg, ValueMsg(e)>>

RECURSIVE FileSize(_)
FileSize(f) == IF f = <<>> THEN 0 ELSE f[1].len + FileSize(Tail(f))

\* the messages of file f from byte offset off on; <<>> if off is at or past the
\* end.  (Offsets produced by Write always fall on a message boundary.)
RECURSIVE SeekTo(_, _)
SeekTo(f, off) ==
    IF f = <<>> THEN <<>>
    ELSE IF off <= 0 THEN f
    ELSE SeekTo(Tail(f), off - f[1].len)

\* decoder.Decode(&entry) on the stream s by a decoder that has (known) or has
\* not yet read the type description: the entry, or an error, and what is left
RECURSIVE Decode(_, _)
Decode(s, known) ==
    IF s = <<>> THEN [ok |-> FALSE, entry |-> NoEntry, rest |-> <<>>, known |-> known]
    ELSE IF s[1].kind = "type"
         THEN IF known
              THEN [ok |-> FALSE, entry |-> NoEntry, rest |-> Tail(s), known |-> known]
              ELSE Decode(Tail(s), TRUE)
         ELSE IF known
              THEN [ok |-> TRUE, entry |-> s[1].entry, rest |-> Tail(s), known |-> known]
              ELSE [ok |-> FALSE, entry |-> NoEntry, rest |-> Tail(s), known |-> known]

\* &partition{path, startTime, endTime, file, encoder: gob.NewEncoder(file)}
NewPartition(partTime) ==
    [path |-> PathOf(partTime), startTime |-> partTime,
     endTime |-> partTime + PartitionInterval, typesSent |-> FALSE, count |-> 0]

\* loadPartitions: &partition{path, file, encoder}; the times stay zero
LoadedPartition(path) ==
    [path |-> path, startTime |-> ZeroTime, endTime |-> ZeroTime,
     typesSent |-> FALSE, count |-> 0]

\* getPartition: fs.partitions after the call
getPartition(t) ==
    IF FormatKey(Truncate(t)) \in DOMAIN partitions
    THEN partitions
    ELSE (FormatKey(Truncate(t)) :> NewPartition(Truncate(t))) @@ partitions

\* os.OpenFile(filename, O_APPEND|O_CREATE|O_WRONLY): the file exists afterwards
OpenFile(path) == IF path \in DOMAIN files THEN files ELSE (path :> <<>>) @@ files

NewStats == [TotalEntries |-> 0, OldestEntry |-> ZeroTime, NewestEntry |-> ZeroTime]

NewFsLog ==
    [written |-> <<>>,    \* id -> the entry last written under it in this lifetime
     get |-> [id |-> 0, ok |-> FALSE, entry |-> NoEntry, expected |-> NoEntry],
                          \* the last Get: its result, and the entry written under
                          \* that id in this lifetime (NoEntry if there is none)
     writes |-> 0, restarts |-> 0,
     del |-> [called |-> FALSE, before |-> 0, parts |-> <<>>, files |-> <<>>,
              partsAfter |-> <<>>, filesAfter |-> <<>>]]
                          \* the last Delete: its argument, fs.partitions and
                          \* the files before it and after it

\* NewFileStore on an empty directory
StoreInit ==
    /\ files = <<>>
    /\ partitions = <<>>
    /\ index = <<>>
    /\ fsStats = NewStats
    /\ fsLog = NewFsLog

(***************************************************************************)
(* Write                                                                   *)
(***************************************************************************)
Write(entry) ==
    LET key == FormatKey(Truncate(entry.ts))
        parts == getPartition(entry.ts)
        part == parts[key]
        disk == OpenFile(part.path)
        offset == FileSize(disk[part.path])
    IN  /\ files' = [disk EXCEPT ![part.path] = @ \o Encode(part.typesSent, entry)]
        /\ partitions' = [parts EXCEPT ![key].typesSent = TRUE, ![key].count = @ + 1]
        /\ index' = (entry.id :> [id |-> entry.id, partition |-> part.path,
                                  offset |-> offset, timestamp |-> entry.ts]) @@ index
        /\ fsStats' = [TotalEntries |-> fsStats.TotalEntries + 1,
                       OldestEntry |-> IF \/ fsStats.OldestEntry = ZeroTime
                                          \/ entry.ts < fsStats.OldestEntry
                                       THEN entry.ts ELSE fsStats.OldestEntry,
                       NewestEntry |-> IF entry.ts > fsStats.NewestEntry
                                       THEN entry.ts ELSE fsStats.NewestEntry]
        /\ fsLog' = [fsLog EXCEPT !.written = (entry.id :> entry) @@ @,
                                  !.writes = @ + 1]

StoreWrite ==
    /\ fsLog.writes < MaxWrites
    /\ \E entry \in LogEntries : Write(entry)
    /\ UNCHANGED storeOthers

(***************************************************************************)
(* Get                                                                     *)
(***************************************************************************)
\* the result of fs.Get(id): ok and the entry, or an error
Get(id) ==
    IF id \notin DOMAIN index
    THEN [ok |-> FALSE, entry |-> NoEntry]
    ELSE IF index[id].partition \notin DOMAIN files
    THEN [ok |-> FALSE, entry |-> NoEntry]
    ELSE LET d == Decode(SeekTo(files[index[id].partition], index[id].offset), FALSE)
         IN  [ok |-> d.ok, entry |-> d.entry]

StoreGet ==
    /\ \E id \in Ids :
          fsLog' = [fsLog EXCEPT !.get =
                       [id |-> id, ok |-> Get(id).ok, entry |-> Get(id).entry,
                        expected |-> IF id \in DOMAIN fsLog.written
                                     THEN fsLog.written[id] ELSE NoEntry]]
    /\ UNCHANGED <<files, partitions, index, fsStats, storeOthers>>

(***************************************************************************)
(* Restart: the process ends and NewFileStore runs on the same directory   *)
(***************************************************************************)
loadPartitions ==
    [k \in {BaseKey(path) : path \in DOMAIN files} |-> LoadedPartition(k[2])]

StoreRestart ==
    /\ fsLog.restarts < MaxRestarts
    /\ partitions' = loadPartitions
    /\ index' = <<>>
    /\ fsStats' = NewStats
    /\ fsLog' = [NewFsLog EXCEPT !.writes = fsLog.writes,
                                 !.restarts = fsLog.restarts + 1,
                                 !.del = fsLog.del]
    /\ UNCHANGED <<files, storeOthers>>

(***************************************************************************)
(* Delete                                                                  *)
(***************************************************************************)
\* the keys of the partitions Delete(before) closes and removes
Doomed(before) == {k \in DOMAIN partitions : partitions[k].endTime < before}

Without(f, ks) == [k \in DOMAIN f \ ks |-> f[k]]

\* fs.Delete(before): os.Remove(part.path) and delete(fs.partitions, key) for
\* every partition whose endTime is before `before`
Delete(before) ==
    /\ files' = Without(files, {partitions[k].path : k \in Doomed(before)})
    /\ partitions' = Without(partitions, Doomed(before))

DeleteTimes == 0..(MaxTs + PartitionInterval + 1)

StoreDelete ==
    /\ \E before \in DeleteTimes :
          /\ Delete(before)
          /\ fsLog' = [fsLog EXCEPT !.del =
                 [called |-> TRUE, before |-> before, parts |-> partitions,
                  files |-> files, partsAfter |-> partitions',
                  filesAfter |-> files']]
    /\ UNCHANGED <<index, fsStats, storeOthers>>

\* Write, while no Delete has run (a file that Delete unlinked under a
\* partition that is still in fs.partitions is not followed further)
WriteBeforeDelete ==
    /\ ~fsLog.del.called
    /\ StoreWrite

\* the store is written, restarted and then pruned
DeleteNext ==
    \/ WriteBeforeDelete
    \/ StoreRestart
    \/ StoreDelete

\* the end of the time span of the partition file at path: the partition
\* time in its name plus the interval
SpanEnd(path) == path + PartitionInterval

\* C23: Delete(before) removes exactly the partitions whose end time precedes
\* before, whether Write created them or startup re-opened them: a partition
\* is gone from the store afterwards iff the time span of its file ends
\* before `before`, and the files of the others are there with their content.
C23_DeleteRemovesExactlyOld ==
    fsLog.del.called =>
        \A k \in DOMAIN fsLog.del.parts :
            LET part == fsLog.del.parts[k]
                old == SpanEnd(part.path) < fsLog.del.before
            IN  /\ (k \notin DOMAIN fsLog.del.partsAfter) <=> old
                /\ ~old => /\ part.path \in DOMAIN fsLog.del.filesAfter
                           /\ fsLog.del.filesAfter[part.path]
                                  = fsLog.del.files[part.path]

StoreNext ==
    \/ StoreWrite
    \/ StoreGet
    \/ StoreRestart

\* C9: within one process lifetime, Get(i) of an id written in that lifetime
\* succeeds and returns the entry written under i: the offset recorded by Write
\* is a position from which the record can be decoded.
C9_GetReturnsWritten ==
    fsLog.get.expected # NoEntry
        => fsLog.get.ok /\ fsLog.get.entry = fsLog.get.expected

(***************************************************************************)
(* RECEIVER  (src/unnamed/part_003, package receiver)                      *)
(*                                                                         *)
(* Agents post batches to handleIngest.  A client sends a batch again only *)
(* after an attempt that was not answered 200, and never while an attempt  *)
(* with the same entries is still being handled.  The clock advances in    *)
(* ticks of 1/TicksPerSecond second in SpecRateLimit; the requests of      *)
(* SpecReceiver arrive within one tick, so no token is refilled there.     *)
(***************************************************************************)

\* Bounds of the receiver model.
NumRequests == 2
NumAgents == 2
MaxRateLimit == 2
OutputCap == 1
TicksPerSecond == 2

\* r.config.MaxBatchSize
MaxBatchSize == 2

Requests == 1..NumRequests
Agents == 1..NumAgents

\* the batches the agents hold: every entry belongs to one batch, except that
\* the last batch is too large to be accepted
BatchA == <<[id |-> 1, ts |-> 0], [id |-> 2, ts |-> MaxTs]>>
BatchB == <<[id |-> MaxIds, ts |-> 0]>>
BatchC == BatchA \o BatchB
Batches == {<<>>, BatchA, BatchB, BatchC}

\* what a request carries: the agent id, the method, whether the bearer token
\* is one of the API keys, and the body: a JSON batch or something that is not
RequestInputs ==
    [agent : Agents, method : {"POST", "GET"}, token : BOOLEAN,
     json : BOOLEAN, entries : Batches]

IdleRequest ==
    [pc |-> "idle", agent |-> 0, entries |-> <<>>, i |-> 0, status |-> 0,
     received |-> 0, placed |-> <<>>]

\* http status codes
StatusOK == 200
StatusBadRequest == 400
StatusUnauthorized == 401
StatusMethodNotAllowed == 405
StatusRequestEntityTooLarge == 413
StatusTooManyRequests == 429
StatusServiceUnavailable == 503

ReceiverInit ==
    /\ rcvCfg \in [RateLimit : 0..MaxRateLimit, RequireAuth : BOOLEAN]
    /\ reqs = [r \in Requests |-> IdleRequest]
    /\ output = <<>>
    /\ rcvCtx = "running"
    /\ rcvStats = [RequestsReceived |-> 0, LogsReceived |-> 0, Errors |-> 0]
    /\ rateLimits = <<>>
    /\ rlLog = [a \in Agents |-> <<>>]

(***************************************************************************)
(* Rate limiter                                                            *)
(***************************************************************************)
\* int(elapsed.Seconds())
Seconds(ticks) == ticks \div TicksPerSecond

\* an elapsed time is tracked up to here: the refill is the same beyond it
RefillAll == rcvCfg.RateLimit * TicksPerSecond

\* the tokens after the refill of allow()
RefillUncapped(rl) == rl.tokens + Seconds(rl.sinceRefill)

Refill(rl) == Min(rl.tokens + Seconds(rl.sinceRefill), rl.maxTokens)

\* rl.allow(): the limiter afterwards and the answer
allow(rl) ==
    LET tokensToAdd == Seconds(rl.sinceRefill)
        filled == IF tokensToAdd > 0
                  THEN [rl EXCEPT !.tokens = Refill(rl), !.sinceRefill = 0]
                  ELSE rl
    IN  IF filled.tokens > 0
        THEN [rl |-> [filled EXCEPT !.tokens = @ - 1], ok |-> TRUE]
        ELSE [rl |-> filled, ok |-> FALSE]

\* &rateLimiter{tokens: RateLimit, maxTokens: RateLimit, lastRefill: time.Now()}
NewRateLimiter ==
    [tokens |-> rcvCfg.RateLimit, maxTokens |-> rcvCfg.RateLimit, sinceRefill |-> 0]

\* r.checkRateLimit(agentID): r.rateLimits afterwards and the answer
checkRateLimit(agent) ==
    LET rl == IF agent \in DOMAIN rateLimits THEN rateLimits[agent] ELSE NewRateLimiter
        res == allow(rl)
    IN  [limits |-> (agent :> res.rl) @@ rateLimits, ok |-> res.ok]

\* the effect of one checkRateLimit call on the limiter state
RateLimited(agent) ==
    /\ rateLimits' = checkRateLimit(agent).limits
    /\ rlLog' = IF checkRateLimit(agent).ok
                THEN [rlLog EXCEPT ![agent] = Append(@, 0)]
                ELSE rlLog

\* a call of checkRateLimit on its own
CheckRateLimit ==
    /\ \E agent \in Agents : RateLimited(agent)
    /\ UNCHANGED <<rcvCfg, reqs, output, rcvCtx, rcvStats, rcvOthers>>

RECURSIVE Aged(_)
Aged(ages) ==
    IF ages = <<>> THEN <<>>
    ELSE IF ages[1] + 1 > TicksPerSecond THEN Aged(Tail(ages))
    ELSE <<ages[1] + 1>> \o Aged(Tail(ages))

\* the clock advances by one tick
Tick ==
    /\ rateLimits' = [a \in DOMAIN rateLimits |->
                         [rateLimits[a] EXCEPT !.sinceRefill = Min(@ + 1, RefillAll)]]
    /\ rlLog' = [a \in Agents |-> Aged(rlLog[a])]
    /\ UNCHANGED <<rcvCfg, reqs, output, rcvCtx, rcvStats, rcvOthers>>

RateLimitNext ==
    \/ CheckRateLimit
    \/ Tick

(***************************************************************************)
(* handleIngest                                                            *)
(***************************************************************************)
\* the handler of request r returns after it answered status, an error: its
\* locals are gone
Finished(r, status) ==
    [reqs EXCEPT ![r] = [IdleRequest EXCEPT !.pc = "done", !.status = status]]

\* requests are numbered in the order they arrive
NextRequest(r) ==
    /\ reqs[r].pc = "idle"
    /\ \A q \in Requests : q < r => reqs[q].pc # "idle"

\* the client holds the entries of in.entries and no attempt to deliver any of
\* them is under way or was answered 200
MaySend(in) ==
    \A q \in Requests :
        Range(reqs[q].entries) \cap Range(in.entries) # {}
            => reqs[q].pc = "done" /\ reqs[q].status # StatusOK

Arrived(r, in) == [reqs[r] EXCEPT !.agent = in.agent, !.entries = in.entries]

\* authMiddleware turns the request away
RequestUnauthorized ==
    /\ rcvCtx # "shutdown"
    /\ rcvCfg.RequireAuth
    /\ \E r \in Requests, in \in RequestInputs :
          /\ NextRequest(r)
          /\ MaySend(in)
          /\ ~in.token
          /\ reqs' = Finished(r, StatusUnauthorized)
    /\ rcvStats' = [rcvStats EXCEPT !.Errors = @ + 1]
    /\ UNCHANGED <<rcvCfg, output, rcvCtx, rateLimits, rlLog, rcvOthers>>

Authorized(in) == rcvCfg.RequireAuth => in.token

\* handleIngest, req.Method != http.MethodPost
RequestBadMethod ==
    /\ rcvCtx # "shutdown"
    /\ \E r \in Requests, in \in RequestInputs :
          /\ NextRequest(r)
          /\ MaySend(in)
          /\ Authorized(in)
          /\ in.method # "POST"
          /\ reqs' = Finished(r, StatusMethodNotAllowed)
    /\ UNCHANGED <<rcvCfg, output, rcvCtx, rcvStats, rateLimits, rlLog, rcvOthers>>

\* the status handleIngest answers before it reaches the loop, 0 if it reaches it
EarlyStatus(in, allowed) ==
    IF ~allowed THEN StatusTooManyRequests
    ELSE IF ~in.json THEN StatusBadRequest
    ELSE IF Len(in.entries) > MaxBatchSize THEN StatusRequestEntityTooLarge
    ELSE 0

\* handleIngest that counts the entries of a batch as soon as it is decoded
RequestIngestCountsDecoded ==
    /\ rcvCtx # "shutdown"
    /\ \E r \in Requests, in \in RequestInputs :
          LET allowed == checkRateLimit(in.agent).ok
              early == EarlyStatus(in, allowed)
          IN  /\ NextRequest(r)
              /\ MaySend(in)
              /\ Authorized(in)
              /\ in.method = "POST"
              /\ RateLimited(in.agent)
              /\ reqs' = IF early # 0
                          THEN Finished(r, early)
                          ELSE [reqs EXCEPT ![r] = [Arrived(r, in) EXCEPT
                                                       !.pc = "loop", !.i = 1]]
              /\ rcvStats' = [rcvStats EXCEPT
                                !.RequestsReceived = @ + 1,
                                !.LogsReceived =
                                    IF allowed /\ in.json
                                    THEN @ + Len(in.entries) ELSE @,
                                !.Errors = IF early # 0 THEN @ + 1 ELSE @]
    /\ UNCHANGED <<rcvCfg, output, rcvCtx, rcvOthers>>

\* handleIngest of a POST, from its start to the loop over batch.Entries
RequestIngest ==
    /\ rcvCtx # "shutdown"
    /\ \E r \in Requests, in \in RequestInputs :
          LET allowed == checkRateLimit(in.agent).ok
              early == EarlyStatus(in, allowed)
          IN  /\ NextRequest(r)
              /\ MaySend(in)
              /\ Authorized(in)
              /\ in.method = "POST"
              /\ RateLimited(in.agent)
              /\ reqs' = IF early # 0
                          THEN Finished(r, early)
                          ELSE [reqs EXCEPT ![r] = [Arrived(r, in) EXCEPT
                                                       !.pc = "loop", !.i = 1]]
              /\ rcvStats' = [rcvStats EXCEPT
                                !.RequestsReceived = @ + 1,
                                !.Errors = IF early # 0 THEN @ + 1 ELSE @]
    /\ UNCHANGED <<rcvCfg, output, rcvCtx, rcvOthers>>

InLoop(r) == reqs[r].pc = "loop" /\ reqs[r].i <= Len(reqs[r].entries)

\* case r.output <- entry
IngestSend ==
    /\ \E r \in Requests :
          /\ InLoop(r)
          /\ Len(output) < OutputCap
          /\ output' = Append(output, reqs[r].entries[reqs[r].i])
          /\ reqs' = [reqs EXCEPT ![r].i = @ + 1,
                                  ![r].placed = Append(@, reqs[r].entries[reqs[r].i])]
    /\ rcvStats' = [rcvStats EXCEPT !.LogsReceived = @ + 1]
    /\ UNCHANGED <<rcvCfg, rcvCtx, rateLimits, rlLog, rcvOthers>>

\* case <-r.ctx.Done()
IngestShutdown ==
    /\ rcvCtx # "running"
    /\ \E r \in Requests :
          /\ InLoop(r)
          /\ reqs' = Finished(r, StatusServiceUnavailable)
    /\ UNCHANGED <<rcvCfg, output, rcvCtx, rcvStats, rateLimits, rlLog, rcvOthers>>

\* what the handler does with the entry at hand when no case of the select
\* is ready
IngestSkipsEntry(r) == [reqs EXCEPT ![r].i = @ + 1]

IngestGivesUp(r) == Finished(r, StatusServiceUnavailable)

\* default: the channel is full and the receiver is running
IngestFull ==
    /\ rcvCtx = "running"
    /\ Len(output) >= OutputCap
    /\ \E r \in Requests :
          /\ InLoop(r)
          /\ reqs' = IngestGivesUp(r)
    /\ rcvStats' = [rcvStats EXCEPT !.Errors = @ + 1]
    /\ UNCHANGED <<rcvCfg, output, rcvCtx, rateLimits, rlLog, rcvOthers>>

\* after the loop: 200 with "received": len(batch.Entries)
IngestRespond ==
    /\ \E r \in Requests :
          /\ reqs[r].pc = "loop"
          /\ reqs[r].i > Len(reqs[r].entries)
          /\ reqs' = [reqs EXCEPT ![r].pc = "done", ![r].status = StatusOK,
                                  ![r].received = Len(reqs[r].entries)]
    /\ UNCHANGED <<rcvCfg, output, rcvCtx, rcvStats, rateLimits, rlLog, rcvOthers>>

\* Stop: r.cancel()
ReceiverCancel ==
    /\ rcvCtx = "running"
    /\ rcvCtx' = "cancelled"
    /\ UNCHANGED <<rcvCfg, reqs, output, rcvStats, rateLimits, rlLog, rcvOthers>>

\* Stop: r.server.Shutdown(ctx), no request is accepted any more
ReceiverShutdown ==
    /\ rcvCtx = "cancelled"
    /\ rcvCtx' = "shutdown"
    /\ UNCHANGED <<rcvCfg, reqs, output, rcvStats, rateLimits, rlLog, rcvOthers>>

(***************************************************************************)
(* PIPELINE  (src/internal/pipeline/pipeline.go) and the storage writer    *)
(***************************************************************************)

\* Bounds of the pipeline model.
NumWorkers == 2
PipelineCap == 1
MaxStages == 2

Workers == 1..NumWorkers

IdleWorker == [pc |-> "recv", entry |-> NoEntry]

\* a worker beyond config.Workers: New starts no goroutine for it
NoWorker == [pc |-> "off", entry |-> NoEntry]

NoProcess == [worker |-> 0, id |-> 0, failedAt |-> 0, applied |-> 0,
              outcome |-> "none", room |-> FALSE]

\* New with configuration cfg
NewPipeline(cfg) ==
    /\ pipeCfg = cfg
    /\ workers = [w \in Workers |-> IF w <= cfg.Workers THEN IdleWorker
                                    ELSE NoWorker]
    /\ pipeCtxDone = FALSE
    /\ pipelineOutput = <<>>
    /\ pipeStats = [Processed |-> 0, Failed |-> 0, Dropped |-> 0]
    /\ pipeLog = [fed |-> 0, consumed |-> 0, emitted |-> <<>>, last |-> NoProcess]

\* the server's pipeline: one worker, one processor
PipelineInit ==
    \E rejects \in SUBSET {MaxIds} :
        NewPipeline([Workers |-> 1, stages |-> <<rejects>>])

\* processEntry that goes through every stage and keeps the first error
processEntryAll(entry) ==
    LET failing == {k \in 1..Len(pipeCfg.stages) : entry.id \in pipeCfg.stages[k]}
    IN [failedAt |-> IF failing = {} THEN 0
                     ELSE CHOOSE k \in failing : \A j \in failing : k <= j,
        applied |-> Len(pipeCfg.stages)]

\* p.processEntry(entry): the stage that returned an error (0 for nil) and
\* the number of stages applied to the entry
processEntry(entry) ==
    LET failing == {k \in 1..Len(pipeCfg.stages) : entry.id \in pipeCfg.stages[k]}
        first == IF failing = {} THEN 0
                 ELSE CHOOSE k \in failing : \A j \in failing : k <= j
    IN [failedAt |-> first,
        applied |-> IF first = 0 THEN Len(pipeCfg.stages) ELSE first]

recordSuccess(stats) == [stats EXCEPT !.Processed = @ + 1]

recordFailure(stats) == [stats EXCEPT !.Failed = @ + 1]

recordNoDrop(stats) == stats

recordDrop(stats) == [stats EXCEPT !.Dropped = @ + 1]

\* worker, outer select: case <-p.ctx.Done()
WorkerExit ==
    /\ pipeCtxDone
    /\ \E w \in Workers :
          /\ workers[w].pc = "recv"
          /\ workers' = [workers EXCEPT ![w].pc = "exited"]
    /\ UNCHANGED <<pipeCfg, pipeCtxDone, pipelineOutput, pipeStats, pipeLog,
                   pipeOthers>>

\* worker, outer select: case entry := <-p.input, then processEntry
WorkerReceive ==
    /\ output # <<>>
    /\ \E w \in Workers :
          /\ workers[w].pc = "recv"
          /\ LET r == processEntry(Head(output)) IN
              /\ pipeLog' = [pipeLog EXCEPT !.consumed = @ + 1,
                     !.last = [NoProcess EXCEPT !.worker = w,
                                  !.id = Head(output).id,
                                  !.failedAt = r.failedAt, !.applied = r.applied]]
              /\ IF r.failedAt = 0
                 THEN /\ workers' = [workers EXCEPT ![w] = [pc |-> "send",
                                                            entry |-> Head(output)]]
                      /\ UNCHANGED pipeStats
                 ELSE /\ pipeStats' = recordFailure(pipeStats)
                      /\ UNCHANGED workers
    /\ output' = Tail(output)
    /\ UNCHANGED <<pipeCfg, pipeCtxDone, pipelineOutput,
                   rcvCfg, reqs, rcvCtx, rcvStats, rateLimits, rlLog,
                   shipVars, storeVars, queryVars, tailVars, bufVars, searchVars, cloneVars, lockVars>>

\* worker, inner select: case p.output <- entry
WorkerSend ==
    /\ Len(pipelineOutput) < PipelineCap
    /\ \E w \in Workers :
          /\ workers[w].pc = "send"
          /\ pipelineOutput' = Append(pipelineOutput, workers[w].entry)
          /\ workers' = [workers EXCEPT ![w] = IdleWorker]
          /\ pipeLog' = [pipeLog EXCEPT !.emitted = Append(@, workers[w].entry.id),
                 !.last = [NoProcess EXCEPT !.worker = w, !.id = workers[w].entry.id,
                              !.applied = Len(pipeCfg.stages),
                              !.outcome = "processed", !.room = TRUE]]
    /\ pipeStats' = recordSuccess(pipeStats)
    /\ UNCHANGED <<pipeCfg, pipeCtxDone, pipeOthers>>

\* worker, inner select without the ctx.Done case: nothing happens
WorkerNotCancelled ==
    /\ pipeCtxDone
    /\ \E w \in Workers : workers[w].pc = "send"
    /\ UNCHANGED vars

\* worker, inner select: case <-p.ctx.Done()
WorkerCancelled ==
    /\ pipeCtxDone
    /\ \E w \in Workers :
          /\ workers[w].pc = "send"
          /\ workers' = [workers EXCEPT ![w] = [pc |-> "exited", entry |-> NoEntry]]
    /\ UNCHANGED <<pipeCfg, pipeCtxDone, pipelineOutput, pipeStats, pipeLog,
                   pipeOthers>>

\* worker, inner select: default
WorkerDrop ==
    /\ ~pipeCtxDone
    /\ Len(pipelineOutput) >= PipelineCap
    /\ \E w \in Workers :
          /\ workers[w].pc = "send"
          /\ workers' = [workers EXCEPT ![w] = IdleWorker]
          /\ pipeLog' = [pipeLog EXCEPT
                 !.last = [NoProcess EXCEPT !.worker = w, !.id = workers[w].entry.id,
                              !.applied = Len(pipeCfg.stages),
                              !.outcome = "dropped",
                              !.room = Len(pipelineOutput) < PipelineCap]]
    /\ pipeStats' = recordDrop(pipeStats)
    /\ UNCHANGED <<pipeCfg, pipeCtxDone, pipelineOutput, pipeOthers>>

\* Stop: p.cancel()
PipelineStop ==
    /\ ~pipeCtxDone
    /\ pipeCtxDone' = TRUE
    /\ UNCHANGED <<pipeCfg, workers, pipelineOutput, pipeStats, pipeLog, pipeOthers>>

\* for entry := range pipelineOutput { store.Write(entry) }
StorageWriter ==
    /\ pipelineOutput # <<>>
    /\ Write(Head(pipelineOutput))
    /\ pipelineOutput' = Tail(pipelineOutput)
    /\ UNCHANGED <<pipeCfg, workers, pipeCtxDone, pipeStats, pipeLog,
                   shipVars, rcvVars, queryVars, tailVars, bufVars, searchVars, cloneVars, lockVars>>

ReceiverNext ==
    \/ RequestUnauthorized
    \/ RequestBadMethod
    \/ RequestIngest
    \/ IngestSend
    \/ IngestShutdown
    \/ IngestFull
    \/ IngestRespond
    \/ ReceiverCancel
    \/ ReceiverShutdown
    \/ WorkerExit
    \/ WorkerReceive
    \/ WorkerSend
    \/ WorkerCancelled
    \/ WorkerDrop
    \/ PipelineStop
    \/ StorageWriter

(***************************************************************************)
(* The pipeline on its own: New with any configuration of workers and      *)
(* stages, a producer that puts entries 1, 2, ... on the inbound channel,  *)
(* the storage writer draining the outbound channel.                       *)
(***************************************************************************)
StageRejects == {{}, {1}, {MaxIds}}

PipelineConfigs ==
    [Workers : 1..NumWorkers,
     stages : UNION {[1..n -> StageRejects] : n \in 0..MaxStages}]

PipelineAnyConfig == \E cfg \in PipelineConfigs : NewPipeline(cfg)

\* the receiver's handler places the next entry on the inbound channel
PipelineFeed ==
    /\ pipeLog.fed < MaxIds
    /\ Len(output) < OutputCap
    /\ output' = Append(output, [id |-> pipeLog.fed + 1, ts |-> 0])
    /\ pipeLog' = [pipeLog EXCEPT !.fed = @ + 1]
    /\ UNCHANGED <<pipeCfg, workers, pipeCtxDone, pipelineOutput, pipeStats,
                   rcvCfg, reqs, rcvCtx, rcvStats, rateLimits, rlLog,
                   shipVars, storeVars, queryVars, tailVars, bufVars, searchVars, cloneVars, lockVars>>

PipelineNext ==
    \/ PipelineFeed
    \/ WorkerExit
    \/ WorkerReceive
    \/ WorkerSend
    \/ WorkerCancelled
    \/ WorkerDrop
    \/ PipelineStop
    \/ StorageWriter

\* the entries workers hold between the inbound receive and the send
InHand == {w \in Workers : workers[w].pc = "send"}

\* the entries taken so far for which a stage returns an error
Rejected ==
    {id \in 1..pipeLog.consumed :
        \E k \in 1..Len(pipeCfg.stages) : id \in pipeCfg.stages[k]}

\* C17: while the pipeline is not stopped, every entry taken from the
\* inbound channel and dealt with has incremented exactly one of Processed,
\* Failed and Dropped (the three sum to the entries consumed, less those a
\* worker still holds); the entries placed on the outbound channel are the
\* Processed ones, each once; an entry is dropped exactly when the outbound
\* channel has no room.
C17_EveryEntryCountedOnce ==
    ~pipeCtxDone =>
        /\ pipeStats.Processed + pipeStats.Failed + pipeStats.Dropped
               + Cardinality(InHand) = pipeLog.consumed
        /\ Len(pipeLog.emitted) = pipeStats.Processed
        /\ \A i, j \in 1..Len(pipeLog.emitted) :
               i # j => pipeLog.emitted[i] # pipeLog.emitted[j]
        /\ pipeLog.last.outcome = "dropped" => ~pipeLog.last.room
        /\ pipeLog.last.outcome = "processed" => pipeLog.last.room

\* two workers, and each of the three counters has counted an entry
C17_Witness ==
    /\ ~pipeCtxDone
    /\ pipeCfg.Workers = 2
    /\ pipeStats.Processed > 0
    /\ pipeStats.Failed > 0
    /\ pipeStats.Dropped > 0
    /\ InHand = {}

\* C18: when a stage (the parser or a processor) returns an error for an
\* entry, the stages behind it are not applied, the entry is never placed on
\* the outbound channel, Failed counts it, and the worker is back at the
\* inbound channel, from where it goes on with later entries.
C18_FailedEntryNotEmitted ==
    /\ pipeLog.last.failedAt > 0 => pipeLog.last.applied = pipeLog.last.failedAt
    /\ \A i \in 1..Len(pipeLog.emitted) : pipeLog.emitted[i] \notin Rejected
    /\ pipeStats.Failed = Cardinality(Rejected)
    /\ (pipeLog.last.failedAt > 0 /\ ~pipeCtxDone)
           => workers[pipeLog.last.worker].pc = "recv"

\* one worker, two stages of which the first rejects entry 1: entry 1 failed
\* and the worker went on to process entry 2
C18_Witness ==
    /\ pipeCfg.Workers = 1
    /\ Len(pipeCfg.stages) = 2
    /\ 1 \in pipeCfg.stages[1]
    /\ pipeStats.Failed = 1
    /\ pipeLog.emitted = <<2>>

(***************************************************************************)
(* Properties of the receiver                                              *)
(***************************************************************************)

\* C6: a request answered 200 with "received": n has placed exactly the n
\* entries of its batch on the output channel, whatever other requests, the
\* workers and Stop do in between.
C6_ReceivedEntriesPlaced ==
    \A r \in Requests :
        reqs[r].status = StatusOK
            => /\ reqs[r].received = Len(reqs[r].entries)
               /\ reqs[r].placed = reqs[r].entries

\* a batch of two entries was answered 200 while the channel holds one entry
C6_Witness ==
    \E r \in Requests :
        /\ reqs[r].status = StatusOK
        /\ reqs[r].received = 2
        /\ reqs[r].placed = BatchA

\* the statuses of the rejections before the loop over the entries
Rejections ==
    {StatusUnauthorized, StatusTooManyRequests, StatusBadRequest,
     StatusRequestEntityTooLarge}

\* the handler of request r answers with a rejection in this step
Rejects(r) ==
    /\ reqs[r].pc # "done"
    /\ reqs'[r].pc = "done"
    /\ reqs'[r].status \in Rejections

\* C32: a request rejected with 401, 429, 400 or 413 places no entry on the
\* inbound channel and leaves LogsReceived as it was; the handler placed
\* nothing before it answered.
C32_RejectionPlacesNothing ==
    [][\A r \in Requests :
          Rejects(r) =>
              /\ reqs[r].placed = <<>>
              /\ output' = output
              /\ rcvStats'.LogsReceived = rcvStats.LogsReceived]_vars

\* a batch larger than MaxBatchSize was answered 413, and the entries of a
\* batch answered 200 are the ones counted
C32_Witness ==
    /\ rcvStats.LogsReceived > 0
    /\ \E r \in Requests :
          reqs[r].pc = "done" /\ reqs[r].status = StatusRequestEntityTooLarge
    /\ \E r \in Requests : reqs[r].status = StatusOK

\* the records of the partition files that hold an entry with this id
StoredRecords(id) ==
    {rec \in UNION {{<<path, i>> : i \in 1..Len(files[path])} : path \in DOMAIN files} :
        /\ files[rec[1]][rec[2]].kind = "value"
        /\ files[rec[1]][rec[2]].entry.id = id}

\* C7: delivery is at least once with deduplication by entry id: a batch sent
\* again after an attempt that was not answered 200 never leaves an id stored
\* twice.
C7_NoIdStoredTwice ==
    \A id \in Ids : Cardinality(StoredRecords(id)) <= 1

\* C8: for every agent, the requests the rate limiter allowed within any window
\* of one second number at most RateLimit + 1.
C8_WindowBound ==
    \A a \in Agents : Len(rlLog[a]) <= rcvCfg.RateLimit + 1

\* an agent got RateLimit + 1 requests through within one second
C8_Witness ==
    \E a \in Agents :
        /\ rcvCfg.RateLimit >= 1
        /\ Len(rlLog[a]) = rcvCfg.RateLimit + 1

(***************************************************************************)
(* FileStore.Query                                                         *)
(***************************************************************************)
\* tr.Contains(t): !t.Before(tr.Start) && !t.After(tr.End)
Contains(tr, t) == ~(t < tr.Start) /\ ~(t > tr.End)

\* findPartitions: the keys of the partitions that overlap the time range
findPartitions(timeRange) ==
    {k \in DOMAIN partitions :
        /\ partitions[k].startTime < timeRange.End
        /\ partitions[k].endTime > timeRange.Start}

\* the loop of readPartition over the stream s: Decode until it fails, keep the
\* entries the query selects.  The model's entries carry no message and its
\* queries no text, so the text filter lets every entry pass.
RECURSIVE ReadEntries(_, _, _)
ReadEntries(s, known, query) ==
    LET d == Decode(s, known)
    IN  IF ~d.ok THEN <<>>
        ELSE IF ~Contains(query.TimeRange, d.entry.ts)
        THEN ReadEntries(d.rest, TRUE, query)
        ELSE <<d.entry>> \o ReadEntries(d.rest, TRUE, query)

\* readPartition: os.Open fails on a missing file, and Query skips the partition
readPartition(part, query) ==
    IF part.path \notin DOMAIN files THEN <<>>
    ELSE ReadEntries(files[part.path], FALSE, query)

\* the loop of Query over the partitions found, in the order parts
RECURSIVE SearchPartitions(_, _, _)
SearchPartitions(parts, hits, query) ==
    IF parts = <<>> THEN hits
    ELSE LET more == hits \o readPartition(partitions[Head(parts)], query)
         IN  IF Len(more) >= query.Limit
             THEN SubSeq(more, 1, query.Limit)
             ELSE SearchPartitions(Tail(parts), more, query)

\* the orders in which a range over the map fs.partitions can yield the keys ks
Orders(ks) ==
    {o \in [1..Cardinality(ks) -> ks] : \A i, j \in DOMAIN o : i # j => o[i] # o[j]}

\* fs.Query(query) when the map iteration yields the partitions in order parts
StoreQuery(query, parts) ==
    LET hits == SearchPartitions(parts, <<>>, query)
    IN  [Hits |-> hits, Total |-> Len(hits)]

(***************************************************************************)
(* QUERY ENGINE  (src/internal/query/query.go, package query)              *)
(*                                                                         *)
(* Callers run Engine.Query concurrently: the engine takes no lock of its  *)
(* own, the cache and the store each take theirs.  A cache entry keeps the *)
(* time since it was stored, saturated just above CacheTTL.                *)
(***************************************************************************)

\* Bounds of the query model.
NumCallers == 1
MaxCacheSize == 1

\* e.cache.ttl, in clock ticks
CacheTTL == 1

\* limits of validateQuery
DefaultLimit == 100
MaxLimit == 10000

Callers == 1..NumCallers

TimeRanges == {[Start |-> 0, End |-> MaxTs], [Start |-> PartitionInterval, End |-> MaxTs]}

SearchQueries ==
    [Query : {""}, TimeRange : TimeRanges, Limit : {0, 1}, Offset : {0, 1},
     SortBy : {""}, SortOrder : {"", "asc"}]

NoResult == [Hits |-> <<>>, Total |-> 0 - 1]

\* validateQuery: the query with its defaults filled in
validateQuery(query) ==
    [query EXCEPT
        !.Limit = IF query.Limit <= 0 THEN DefaultLimit
                  ELSE IF query.Limit > MaxLimit THEN MaxLimit ELSE query.Limit,
        !.Offset = IF query.Offset < 0 THEN 0 ELSE query.Offset,
        !.SortOrder = IF query.SortOrder = "" THEN "desc" ELSE query.SortOrder,
        !.SortBy = IF query.SortBy = "" THEN "timestamp" ELSE query.SortBy]

\* queryCacheKey: Sprintf("%s:%d:%d:%s:%s", ...), Limit and Offset are not in it
queryCacheKey(query) ==
    <<query.Query, query.TimeRange.Start, query.TimeRange.End,
      query.SortBy, query.SortOrder>>

CacheKeys == {queryCacheKey(validateQuery(q)) : q \in SearchQueries}

\* sortResults: the exchange sort, from position <<i, j>> of its two loops on
Swap(hits, i, j) == [hits EXCEPT ![i] = hits[j], ![j] = hits[i]]

RECURSIVE SortFrom(_, _, _, _)
SortFrom(hits, i, j, ascending) ==
    IF i > Len(hits) - 1 THEN hits
    ELSE IF j > Len(hits) THEN SortFrom(hits, i + 1, i + 2, ascending)
    ELSE LET swap == IF ascending THEN hits[i].ts > hits[j].ts
                                  ELSE hits[i].ts < hits[j].ts
         IN  SortFrom(IF swap THEN Swap(hits, i, j) ELSE hits, i, j + 1, ascending)

\* Query without sortResults: the hits stay in the store's order
unsortedResults(result, query) == result

sortResults(result, query) ==
    IF query.SortBy = "timestamp"
    THEN [result EXCEPT !.Hits = SortFrom(@, 1, 2, query.SortOrder = "asc")]
    ELSE result

\* paginateResults
paginateResults(result, query) ==
    IF query.Offset >= Len(result.Hits)
    THEN [result EXCEPT !.Hits = <<>>]
    ELSE [result EXCEPT !.Hits =
             SubSeq(@, query.Offset + 1, Min(query.Offset + query.Limit, Len(@)))]

\* an elapsed time is tracked up to here; beyond it the entry is expired anyway
Stale == CacheTTL + 1

\* the expiry test of cache.get, and one that never lets an entry expire
NeverExpired(entry) == FALSE

Expired(entry) == entry.age > CacheTTL

\* c.get(key): the cached result, or NoResult for nil
cacheGet(key) ==
    IF key \notin DOMAIN cache THEN NoResult
    ELSE IF Expired(cache[key]) THEN NoResult
    ELSE cache[key].result

\* c.set without the eviction
cacheSetKeepsAll(key, result) ==
    (key :> [result |-> result, age |-> 0]) @@ cache

\* c.set(key, result): c.entries afterwards
cacheSet(key, result) ==
    LET kept == IF Cardinality(DOMAIN cache) >= qCfg.CacheSize THEN <<>> ELSE cache
    IN  (key :> [result |-> result, age |-> 0]) @@ kept

IdleCaller ==
    [pc |-> "idle", query |-> validateQuery(CHOOSE q \in SearchQueries : TRUE),
     result |-> NoResult, prev |-> [result |-> NoResult, age |-> Stale], waited |-> 0]

NoCall == [result |-> NoResult, age |-> Stale]

\* observations of the Query calls made with one cache key, the key watched
NewQueryLog(key) ==
    [watch |-> key,
     set |-> NoCall,   \* the result last stored in the cache under the key, and
                       \* the time since then
     ret |-> NoCall,   \* the result the last Query with the key returned, and the
                       \* time since that Query was issued
     last |-> [called |-> FALSE, fromStore |-> FALSE, setAge |-> Stale,
               asSet |-> FALSE, prevAge |-> Stale, asPrev |-> FALSE]]
                       \* the Query with the key that returned last: whether the
                       \* store answered it, how long before it was issued a
                       \* result was stored in the cache and whether it returned
                       \* that result, how long before it was issued the Query
                       \* before it was issued and whether it returned the same

QueryInit ==
    /\ qCfg \in [CacheSize : 1..MaxCacheSize]
    /\ cache = <<>>
    /\ callers = [c \in Callers |-> IdleCaller]
    /\ qLog \in {NewQueryLog(key) : key \in CacheKeys}

\* the Query call returns result
Returns(key, result, fromStore, prev, waited) ==
    IF key # qLog.watch THEN qLog
    ELSE [qLog EXCEPT !.ret = [result |-> result, age |-> waited],
                      !.last = [called |-> TRUE, fromStore |-> fromStore,
                                setAge |-> qLog.set.age,
                                asSet |-> result = qLog.set.result,
                                prevAge |-> prev.age,
                                asPrev |-> result = prev.result]]

\* cache.set stores result under key
Cached(key, result, log) ==
    IF key # log.watch THEN log
    ELSE [log EXCEPT !.set = [result |-> result, age |-> 0]]

\* Engine.Query up to the cache: validateQuery, queryCacheKey, cache.get
\* finds the result
QueryHit ==
    /\ \E c \in Callers, q \in SearchQueries :
          LET query == validateQuery(q)
              key == queryCacheKey(query)
          IN  /\ callers[c].pc = "idle"
              /\ cacheGet(key) # NoResult
              /\ qLog' = Returns(key, cacheGet(key), FALSE, qLog.ret, 0)
    /\ UNCHANGED <<qCfg, cache, callers, queryOthers>>

\* Engine.Query up to the store: validateQuery, queryCacheKey, cache.get
\* finds nothing, store.Query
QueryMiss ==
    /\ \E c \in Callers, q \in SearchQueries :
          LET query == validateQuery(q)
              key == queryCacheKey(query)
          IN  /\ callers[c].pc = "idle"
              /\ cacheGet(key) = NoResult
              /\ \E parts \in Orders(findPartitions(query.TimeRange)) :
                    callers' = [callers EXCEPT ![c] =
                                   [pc |-> "found", query |-> query,
                                    result |-> StoreQuery(query, parts),
                                    prev |-> qLog.ret, waited |-> 0]]
    /\ UNCHANGED <<qCfg, cache, qLog, queryOthers>>

\* Engine.Query after the store: sortResults, paginateResults, cache.set
QueryFinish ==
    /\ \E c \in Callers :
          LET query == callers[c].query
              key == queryCacheKey(query)
              result == paginateResults(sortResults(callers[c].result, query), query)
          IN  /\ callers[c].pc = "found"
              /\ cache' = cacheSet(key, result)
              /\ qLog' = Cached(key, result,
                                 Returns(key, result, TRUE, callers[c].prev,
                                         callers[c].waited))
              /\ callers' = [callers EXCEPT ![c] = IdleCaller]
    /\ UNCHANGED <<qCfg, queryOthers>>

\* Engine.ClearCache; what was returned before it is not compared with what is
\* returned after it
ClearCache ==
    /\ cache # <<>>
    /\ cache' = <<>>
    /\ qLog' = [qLog EXCEPT !.ret = NoCall]
    /\ UNCHANGED <<qCfg, callers, queryOthers>>

\* the storage writer stores one of the entries of the agents' batches
QueryStoreWrite ==
    /\ \E entry \in Range(BatchA) :
          /\ entry.id \notin DOMAIN index
          /\ Write(entry)
    /\ UNCHANGED storeOthers

Older(call) == [call EXCEPT !.age = Min(@ + 1, Stale)]

\* the clock advances by one tick
QueryTick ==
    /\ cache' = [k \in DOMAIN cache |-> Older(cache[k])]
    /\ callers' = [c \in Callers |->
                      IF callers[c].pc = "found"
                      THEN [callers[c] EXCEPT !.waited = Min(@ + 1, Stale),
                                              !.prev = Older(@)]
                      ELSE callers[c]]
    /\ qLog' = [qLog EXCEPT !.set = Older(@), !.ret = Older(@)]
    /\ UNCHANGED <<qCfg, queryOthers>>

QueryNext ==
    \/ QueryHit
    \/ QueryMiss
    \/ QueryFinish
    \/ ClearCache
    \/ QueryStoreWrite
    \/ QueryTick

(***************************************************************************)
(* Properties of the query cache                                           *)
(***************************************************************************)

\* C10 as stated: two Query calls with the same cache key issued within CacheTTL
\* of each other return the same SearchResult, whatever queries and store writes
\* are interleaved.
C10_SameResultWithinTTL ==
    (qLog.last.called /\ qLog.last.prevAge <= CacheTTL) => qLog.last.asPrev

\* C10, amended: a Query answered from the cache returns the SearchResult that
\* was last stored under its key, and that was stored at most CacheTTL before;
\* hence a Query issued more than CacheTTL after the entry was cached is
\* answered from the store.
C10_CacheHitIsFreshEntry ==
    (qLog.last.called /\ ~qLog.last.fromStore)
        => qLog.last.setAge <= CacheTTL /\ qLog.last.asSet

\* a Query was answered from the cache, by an entry stored CacheTTL before, while
\* the store held an entry written since
C10_Witness ==
    /\ qLog.last.called
    /\ ~qLog.last.fromStore
    /\ qLog.last.setAge = CacheTTL
    /\ qLog.last.asSet
    /\ qLog.set.result.Total < fsStats.TotalEntries
    /\ qLog.watch[2] = 0

(***************************************************************************)
(* THE QUERY CACHE ON ITS OWN  (queryCache.set, Engine.ClearCache)         *)
(*                                                                         *)
(* Results are stored under any of the cache keys, in a cache of any       *)
(* size from 1 to MaxCacheEntries, while the clock advances.               *)
(***************************************************************************)
MaxCacheEntries == 3

\* the results stored
CacheResults ==
    {[Hits |-> <<>>, Total |-> 0], [Hits |-> <<[id |-> 1, ts |-> 0]>>, Total |-> 1]}

CacheInit ==
    /\ qCfg \in [CacheSize : 1..MaxCacheEntries]
    /\ cache = <<>>
    /\ callers = [c \in Callers |-> IdleCaller]
    /\ qLog = NewQueryLog(CHOOSE key \in CacheKeys : TRUE)

\* e.cache.set(cacheKey, result)
CacheSet ==
    /\ \E key \in CacheKeys, result \in CacheResults :
          /\ cache' = cacheSet(key, result)
          /\ qLog' = Cached(key, result, qLog)
    /\ UNCHANGED <<qCfg, callers, queryOthers>>

CacheNext ==
    \/ CacheSet
    \/ ClearCache
    \/ QueryTick

CacheLen == Cardinality(DOMAIN cache)

\* this step stores a result: an entry of age 0 appears or takes another's place
StoresResult ==
    /\ cache' # cache
    /\ \E key \in DOMAIN cache' : cache'[key].age = 0

SearchRanges == {[Start |-> 1, End |-> MaxTs + PartitionInterval]}

SearchInputs ==
    [Query : {""}, TimeRange : SearchRanges, Limit : {0, 1}, Offset : {0, 1},
     SortBy : {""}, SortOrder : {"", "asc"}]

\* string(entry.Level): the entries with these ids are ERROR entries, INFO
\* entries and entries without a level
LevelOf(entry) ==
    IF entry.id % 3 = 1 THEN "ERROR" ELSE IF entry.id % 3 = 2 THEN "INFO" ELSE ""

Levels == {"ERROR", "INFO"}

\* no Aggregate call observed: its type, its "count", and the count of its
\* bucket for each level (0: no such bucket)
NoAggregate == [type |-> "none", count |-> 0, buckets |-> [l \in Levels |-> 0]]

NoSearch ==
    [called |-> FALSE, query |-> validateQuery(CHOOSE q \in SearchInputs : TRUE),
     fromCache |-> FALSE, stored |-> <<>>, hits |-> <<>>, writes |-> 0,
     agg |-> NoAggregate]

\* Engine.Query, from the call to the return
Search ==
    /\ \E q \in SearchInputs :
          LET query == validateQuery(q)
              key == queryCacheKey(query)
          IN  IF cacheGet(key) # NoResult
              THEN /\ searchLog' = [NoSearch EXCEPT !.called = TRUE,
                          !.query = query, !.fromCache = TRUE,
                          !.hits = cacheGet(key).Hits, !.writes = fsLog.writes]
                   /\ UNCHANGED cache
              ELSE \E parts \in Orders(findPartitions(query.TimeRange)) :
                      LET found == StoreQuery(query, parts)
                          result == paginateResults(sortResults(found, query), query)
                      IN  /\ cache' = cacheSet(key, result)
                          /\ searchLog' = [NoSearch EXCEPT !.called = TRUE,
                                 !.query = query, !.stored = found.Hits,
                                 !.hits = result.Hits, !.writes = fsLog.writes]
    /\ UNCHANGED <<qCfg, callers, qLog, storeVars, shipVars, rcvVars, pipeVars,
                   tailVars, bufVars, cloneVars, lockVars>>

SearchNext ==
    \/ StoreWrite
    \/ Search

\* the records in the partition files, file by file
RECURSIVE Records(_, _)
Records(s, known) ==
    LET d == Decode(s, known)
    IN  IF ~d.ok THEN <<>> ELSE <<d.entry>> \o Records(d.rest, TRUE)

\* the timestamps of the entries the store holds that the query's time range
\* contains, one per record
RECURSIVE MatchCount(_, _, _)
MatchCount(paths, query, t) ==
    IF paths = {} THEN 0
    ELSE LET path == CHOOSE x \in paths : TRUE
             recs == Records(files[path], FALSE)
         IN  Cardinality({i \in 1..Len(recs) :
                 recs[i].ts = t /\ Contains(query.TimeRange, t)})
             + MatchCount(paths \ {path}, query, t)

\* the timestamps of all matches, sorted in the order the query asks for
RECURSIVE Repeat(_, _)
Repeat(t, n) == IF n = 0 THEN <<>> ELSE <<t>> \o Repeat(t, n - 1)

RECURSIVE SortedMatches(_, _)
SortedMatches(query, t) ==
    IF t > MaxTs THEN <<>>
    ELSE LET here == Repeat(t, MatchCount(DOMAIN files, query, t))
         IN  IF query.SortOrder = "asc" THEN here \o SortedMatches(query, t + 1)
             ELSE SortedMatches(query, t + 1) \o here

\* hits are in the order the query asks for
Ordered(hits, query) ==
    \A i, j \in 1..Len(hits) :
        i < j => IF query.SortOrder = "asc" THEN hits[i].ts <= hits[j].ts
                 ELSE hits[i].ts >= hits[j].ts

\* position of an entry in a sequence of entries (0 when it is not there)
IndexIn(hits, e) ==
    IF \E i \in 1..Len(hits) : hits[i] = e
    THEN CHOOSE i \in 1..Len(hits) : hits[i] = e ELSE 0

C20_PageOfSortedMatches ==
    (searchLog.called /\ ~searchLog.fromCache /\ searchLog.writes = fsLog.writes)
        => LET all == SortedMatches(searchLog.query, 0)
               k == searchLog.query.Offset
               n == searchLog.query.Limit
           IN  [i \in 1..Len(searchLog.hits) |-> searchLog.hits[i].ts]
                   = SubSeq(all, k + 1, Min(k + n, Len(all)))

\* what every page of a query with this Limit and Offset has: at most Limit
\* hits, and none when Offset is not below the number of matches
OwnPage(hits, query) ==
    /\ Len(hits) <= query.Limit
    /\ query.Offset >= Len(SortedMatches(query, 0)) => hits = <<>>

\* C37: a Query call returns a page of its own Limit and Offset (at most
\* Limit hits, none when Offset is beyond the matches), also when the
\* result of a query that differs from it only in Limit or Offset is in
\* the cache.
C37_PageOfOwnLimitAndOffset ==
    (searchLog.called /\ searchLog.writes = fsLog.writes)
        => OwnPage(searchLog.hits, searchLog.query)

\* the same for the calls that the store answered
PageOfOwnLimitAndOffsetFromStore ==
    ~searchLog.fromCache => C37_PageOfOwnLimitAndOffset

(***************************************************************************)
(* ONE STORE QUERY  (FileStore.Query under fs.mu.RLock)                    *)
(*                                                                         *)
(* The store is written, and FileStore.Query is called with a query as     *)
(* validateQuery leaves it (Limit DefaultLimit, more than the store ever   *)
(* holds here) and any time range with Start before End.                   *)
(***************************************************************************)
RangeQueries ==
    {[Query |-> "", TimeRange |-> [Start |-> s, End |-> e],
      Limit |-> DefaultLimit, Offset |-> 0, SortBy |-> "timestamp",
      SortOrder |-> "desc"] : s \in 0..MaxTs, e \in 1..(MaxTs + 1)}

\* fs.Query(query), from the call to the return
RangeQuery ==
    /\ \E query \in RangeQueries :
          /\ query.TimeRange.Start < query.TimeRange.End
          /\ \E parts \in Orders(findPartitions(query.TimeRange)) :
                searchLog' = [NoSearch EXCEPT !.called = TRUE, !.query = query,
                    !.stored = StoreQuery(query, parts).Hits,
                    !.hits = StoreQuery(query, parts).Hits,
                    !.writes = fsLog.writes]
    /\ UNCHANGED <<queryVars, storeVars, shipVars, rcvVars, pipeVars,
                   tailVars, bufVars, cloneVars, lockVars>>

RangeNext ==
    \/ StoreWrite
    \/ RangeQuery

\* the entries the store holds, from all its partition files
AllRecords == UNION {Range(Records(files[path], FALSE)) : path \in DOMAIN files}

\* every stored entry whose timestamp is the range's Start is among the hits
StartIncluded ==
    \A e \in AllRecords :
        e.ts = searchLog.query.TimeRange.Start => e \in Range(searchLog.hits)

\* C22: the hits of a query over the store contain no entry whose timestamp
\* is TimeRange.End, and contain every stored entry whose timestamp is
\* TimeRange.Start.
C22_StartInclusiveEndExclusive ==
    (searchLog.called /\ searchLog.writes = fsLog.writes) =>
        /\ \A i \in 1..Len(searchLog.hits) :
               searchLog.hits[i].ts # searchLog.query.TimeRange.End
        /\ StartIncluded

(***************************************************************************)
(* The store queried after it was opened again: NewFileStore on the same   *)
(* directory (loadPartitions), then Write and Query, with a Limit of 1 or  *)
(* the default.                                                            *)
(***************************************************************************)
LimitedQueries ==
    {[q EXCEPT !.Limit = n] : q \in RangeQueries, n \in {1, DefaultLimit}}

\* fs.Query(query), from the call to the return
LimitedQuery ==
    /\ \E query \in LimitedQueries :
          /\ query.TimeRange.Start < query.TimeRange.End
          /\ \E parts \in Orders(findPartitions(query.TimeRange)) :
                searchLog' = [NoSearch EXCEPT !.called = TRUE, !.query = query,
                    !.stored = StoreQuery(query, parts).Hits,
                    !.hits = StoreQuery(query, parts).Hits,
                    !.writes = fsLog.writes]
    /\ UNCHANGED <<queryVars, storeVars, shipVars, rcvVars, pipeVars,
                   tailVars, bufVars, cloneVars, lockVars>>

ReopenNext ==
    \/ StoreWrite
    \/ StoreRestart
    \/ LimitedQuery

\* the entries written to the partition files
OnDisk ==
    UNION {{files[path][i].entry :
               i \in {j \in 1..Len(files[path]) : files[path][j].kind = "value"}} :
           path \in DOMAIN files}

\* the entries on disk from Start up to, not including, End
Matching(query) ==
    {e \in OnDisk : query.TimeRange.Start <= e.ts /\ e.ts < query.TimeRange.End}

\* C34: the hits of a query over the store are stored entries within the
\* time range (its bounds included), at most Limit of them, and when fewer
\* than Limit entries lie in the range all of them are hits, whether the
\* segment that holds them was written by this store or was on disk when it
\* was opened.  (The queries carry no text: every message matches.)
C34_QueryReturnsTheMatches ==
    (searchLog.called /\ searchLog.writes = fsLog.writes) =>
        LET query == searchLog.query IN
        /\ \A i \in 1..Len(searchLog.hits) :
               /\ searchLog.hits[i] \in OnDisk
               /\ Contains(query.TimeRange, searchLog.hits[i].ts)
        /\ Len(searchLog.hits) <= query.Limit
        /\ Cardinality(Matching(query)) < query.Limit
               => Matching(query) \subseteq Range(searchLog.hits)

\* the same for a store that was never opened again
QueryReturnsTheMatchesBeforeReopen ==
    fsLog.restarts = 0 => C34_QueryReturnsTheMatches

(***************************************************************************)
(* AGGREGATE  (src/internal/query/query.go, Engine.Aggregate)              *)
(*                                                                         *)
(* The store is written, and Aggregate is called with a query as the       *)
(* caller built it (Limit 0: not set) or as an earlier Engine.Query left   *)
(* it (validateQuery set Limit to DefaultLimit), on the field "level".     *)
(***************************************************************************)
AggregateQueries ==
    {[q EXCEPT !.Limit = n] : q \in RangeQueries, n \in {0, DefaultLimit}}

\* termsAggregation(entries, "level"): counts[value]++ for every entry with
\* a non-empty value, one bucket per key of counts
termsAggregation(entries) ==
    [l \in Levels |-> Cardinality({i \in 1..Len(entries) : LevelOf(entries[i]) = l})]

\* Aggregate(query, "terms", "level")
AggregateTerms ==
    /\ \E query \in AggregateQueries :
          /\ query.TimeRange.Start < query.TimeRange.End
          /\ \E parts \in Orders(findPartitions(query.TimeRange)) :
                LET result == StoreQuery(query, parts) IN
                searchLog' = [NoSearch EXCEPT !.called = TRUE, !.query = query,
                    !.stored = result.Hits, !.hits = result.Hits,
                    !.writes = fsLog.writes,
                    !.agg = [NoAggregate EXCEPT !.type = "terms",
                                !.buckets = termsAggregation(result.Hits)]]
    /\ UNCHANGED <<queryVars, storeVars, shipVars, rcvVars, pipeVars,
                   tailVars, bufVars, cloneVars, lockVars>>

\* Aggregate(query, "count", "")
AggregateCount ==
    /\ \E query \in AggregateQueries :
          /\ query.TimeRange.Start < query.TimeRange.End
          /\ \E parts \in Orders(findPartitions(query.TimeRange)) :
                LET result == StoreQuery(query, parts) IN
                searchLog' = [NoSearch EXCEPT !.called = TRUE, !.query = query,
                    !.stored = result.Hits, !.hits = result.Hits,
                    !.writes = fsLog.writes,
                    !.agg = [NoAggregate EXCEPT !.type = "count",
                                !.count = result.Total]]
    /\ UNCHANGED <<queryVars, storeVars, shipVars, rcvVars, pipeVars,
                   tailVars, bufVars, cloneVars, lockVars>>

AggregateNext ==
    \/ StoreWrite
    \/ AggregateTerms
    \/ AggregateCount

\* the files of the partitions a query over the time range searches
SearchedFiles(timeRange) ==
    {partitions[k].path : k \in findPartitions(timeRange)} \cap DOMAIN files

\* the number of records in the files paths that the query matches and that
\* have one of the levels ls
RECURSIVE MatchesWith(_, _, _)
MatchesWith(paths, query, ls) ==
    IF paths = {} THEN 0
    ELSE LET path == CHOOSE x \in paths : TRUE
             recs == Records(files[path], FALSE)
         IN  Cardinality({i \in 1..Len(recs) :
                 /\ Contains(query.TimeRange, recs[i].ts)
                 /\ LevelOf(recs[i]) \in ls})
             + MatchesWith(paths \ {path}, query, ls)

\* C35: Aggregate(q, terms, "level") returns for each level a bucket with
\* the number of stored entries matching q that have the level (no bucket
\* when there is none), and Aggregate(q, count) returns the number of
\* stored entries matching q, whether q was passed through Query before or
\* comes as the caller built it.  (The entries matching q are those in the
\* partitions the store searches for q whose timestamp the range contains.)
C35_AggregateCountsTheMatches ==
    (searchLog.called /\ searchLog.writes = fsLog.writes) =>
        /\ searchLog.agg.type = "terms" =>
               \A l \in Levels :
                   searchLog.agg.buckets[l] =
                       MatchesWith(SearchedFiles(searchLog.query.TimeRange),
                                   searchLog.query, {l})
        /\ searchLog.agg.type = "count" =>
               searchLog.agg.count =
                   MatchesWith(SearchedFiles(searchLog.query.TimeRange),
                               searchLog.query, Levels \cup {""})

\* the same for queries that went through Engine.Query before
AggregateOfValidatedQuery ==
    searchLog.query.Limit = DefaultLimit => C35_AggregateCountsTheMatches

(***************************************************************************)
(* FILE TAILER  (src/unnamed/part_004, package tailer)                     *)
(*                                                                         *)
(* One tracked path.  A program constructs a tailer (New), calls AddFile   *)
(* and Start, later Stop, and may then construct the next tailer on the    *)
(* same state file.  A writer appends bytes to the file at the path and    *)
(* may rotate it; a consumer receives from the output channel.  Every byte *)
(* the writer appends is distinct, so that lines can be told apart: the    *)
(* byte at position pos of a file is a positive number when it is data and *)
(* the negated number when it is the newline.                              *)
(***************************************************************************)
MaxFileLen == 3

NumInodes == 2

MaxLives == 2

MaxTailBatch == 2

TailOutputCap == 1

Inodes == 1..NumInodes

Lives == 1..MaxLives

ByteAt(ino, pos, newline) ==
    LET n == (ino - 1) * MaxFileLen + pos IN IF newline THEN 0 - n ELSE n

IsNewline(b) == b < 0

\* the offset, in its file, right behind byte b
EndOf(b) == LET n == IF b < 0 THEN 0 - b ELSE b IN ((n - 1) % MaxFileLen) + 1

\* what is left of a byte sequence behind its first n bytes
Behind(s, n) == SubSeq(s, n + 1, Len(s))

\* bufio.Reader.ReadString('\n') on the bytes ahead of the reader: the length
\* of the line it returns, 0 when it meets the end of the file first
LineLen(s) ==
    IF \E i \in 1..Len(s) : IsNewline(s[i])
    THEN CHOOSE i \in 1..Len(s) :
             IsNewline(s[i]) /\ \A j \in 1..(i - 1) : ~IsNewline(s[j])
    ELSE 0

\* the complete lines of a byte sequence
RECURSIVE LinesOf(_)
LinesOf(s) ==
    IF LineLen(s) = 0 THEN <<>>
    ELSE <<SubSeq(s, 1, LineLen(s))>> \o LinesOf(Behind(s, LineLen(s)))

NoStateFile == [exists |-> FALSE, states |-> <<>>]

NoState == <<>>

\* the tailFile goroutines one process can have started
NumReaders == 2

Readers == 1..NumReaders

\* RemoveFile calls of the program per process
MaxRemoves == 1

NoTail == [pc |-> "none", fd |-> 0, closed |-> FALSE, pos |-> 0, offset |-> 0,
           batch |-> <<>>, i |-> 0, after |-> "loop"]

\* New: empty maps, then loadState (ft.states is a map with at most the one
\* path: the empty sequence, or the sequence of its FileState; ft.files has
\* at most the one path: the reader whose file it holds, or 0)
NewTailer(life, batchSize) ==
    [life |-> life, pc |-> "add", BatchSize |-> batchSize,
     states |-> stateFile.states,
     files |-> 0, watching |-> FALSE, ctxDone |-> FALSE, removes |-> 0]

\* observations: the lines emitted per process, whether a rename event was
\* handled, the lines emitted since AddFile last started a reader, and per
\* process the file and the offset at which its first reader began to read
NewTlLog ==
    [emitted |-> [l \in Lives |-> <<>>], rotations |-> 0, run |-> <<>>,
     began |-> [l \in Lives |-> <<>>]]

TailerInit ==
    /\ fsys = [files |-> [ino \in Inodes |-> <<>>], at |-> 1]
    /\ stateFile = NoStateFile
    /\ \E n \in 1..MaxTailBatch : ft = NewTailer(1, n)
    /\ tail = [r \in Readers |-> NoTail]
    /\ tlOutput = <<>>
    /\ events = <<>>
    /\ tlLog = NewTlLog

\* AddFile: what it leaves in ft.states[path], whether it put the path under
\* the watcher, and whether it started a tailFile goroutine
AddFile(states, watching) ==
    IF states # NoState
    THEN [states |-> states, watching |-> watching, started |-> FALSE]
    ELSE IF fsys.at = 0
    THEN [states |-> states, watching |-> watching, started |-> FALSE]
    ELSE [states |-> <<[Offset |-> 0, Inode |-> fsys.at]>>, watching |-> TRUE,
          started |-> TRUE]

\* go ft.tailFile(path): the next goroutine
NextReader ==
    CHOOSE r \in Readers :
        tail[r].pc = "none" /\ \A q \in 1..(r - 1) : tail[q].pc # "none"

Started(tl) == [tl EXCEPT ![NextReader] = [NoTail EXCEPT !.pc = "open"]]

\* the program calls AddFile(path)
TailerAddFile ==
    /\ ft.pc = "add"
    /\ LET r == AddFile(ft.states, ft.watching) IN
        /\ ft' = [ft EXCEPT !.pc = "start", !.states = r.states,
                            !.watching = r.watching]
        /\ tail' = IF r.started THEN Started(tail) ELSE tail
        /\ tlLog' = IF r.started THEN [tlLog EXCEPT !.run = <<>>] ELSE tlLog
    /\ UNCHANGED <<fsys, stateFile, tlOutput, events, tailOthers>>

\* the program calls Start: the watchEvents goroutine runs from now on
TailerStart ==
    /\ ft.pc = "start"
    /\ ft' = [ft EXCEPT !.pc = "running"]
    /\ UNCHANGED <<fsys, stateFile, tail, tlOutput, events, tlLog, tailOthers>>

\* tailFile returns: the deferred f.Close and delete(ft.files, path)
TailExit(r) == [tail EXCEPT ![r].pc = "done", ![r].batch = <<>>, ![r].i = 0]

\* tailFile up to its loop: open, register in ft.files, seek to state.Offset.
\* When RemoveFile has deleted ft.states[path] in the meantime, state is nil
\* and state.Offset panics: the process dies.
TailOpen ==
    \E r \in Readers :
        /\ tail[r].pc = "open"
        /\ IF fsys.at = 0
           THEN tail' = TailExit(r) /\ ft' = ft
           ELSE IF ft.states = NoState
           THEN /\ tail' = [q \in Readers |->
                              IF tail[q].pc = "none" THEN tail[q]
                              ELSE [tail[q] EXCEPT !.pc = "done", !.batch = <<>>,
                                                   !.i = 0]]
                /\ ft' = [ft EXCEPT !.pc = "crashed"]
           ELSE /\ tail' = [tail EXCEPT ![r].pc = "loop", ![r].fd = fsys.at,
                                        ![r].pos = ft.states[1].Offset,
                                        ![r].offset = ft.states[1].Offset]
                /\ ft' = [ft EXCEPT !.files = r]
        /\ tlLog' = IF fsys.at # 0 /\ ft.states # NoState
                       /\ tlLog.began[ft.life] = <<>>
                    THEN [tlLog EXCEPT !.began[ft.life] =
                             <<[fd |-> fsys.at, at |-> ft.states[1].Offset]>>]
                    ELSE tlLog
        /\ UNCHANGED <<fsys, stateFile, tlOutput, events, tailOthers>>

\* tailFile calls sendBatch(batch)
CallSendBatch(t, after) == [t EXCEPT !.pc = "send", !.i = 1, !.after = after]

\* the default case of the loop: one ReadString
TailRead ==
    \E r \in Readers :
        /\ tail[r].pc = "loop"
        /\ ~ft.ctxDone
        /\ LET ahead == Behind(fsys.files[tail[r].fd], tail[r].pos)
               n == LineLen(ahead)
               line == SubSeq(ahead, 1, n)
               read == [tail[r] EXCEPT !.pos = @ + n, !.offset = @ + n,
                                       !.batch = Append(@, line)]
               skipped == [tail[r] EXCEPT !.pos = @ + Len(ahead)]
           IN
            IF tail[r].closed
            THEN \* a read of a closed file is a fatal error
                 /\ tail' = TailExit(r)
                 /\ ft' = [ft EXCEPT !.files = 0]
            ELSE IF n = 0
            THEN \* io.EOF: the bytes read so far are consumed and discarded
                 /\ tail' = [tail EXCEPT ![r] =
                                IF tail[r].batch # <<>>
                                THEN CallSendBatch(skipped, "loop") ELSE skipped]
                 /\ ft' = ft
            ELSE /\ tail' = [tail EXCEPT ![r] =
                                IF Len(read.batch) >= ft.BatchSize
                                THEN CallSendBatch(read, "loop") ELSE read]
                 \* updateOffset
                 /\ ft' = IF ft.states # NoState
                          THEN [ft EXCEPT !.states[1].Offset = read.offset]
                          ELSE ft
        /\ UNCHANGED <<fsys, stateFile, tlOutput, events, tlLog, tailOthers>>

\* the batchTimer case of the loop
TailTimer ==
    \E r \in Readers :
        /\ tail[r].pc = "loop"
        /\ tail[r].batch # <<>>
        /\ tail' = [tail EXCEPT ![r] = CallSendBatch(@, "loop")]
        /\ UNCHANGED <<fsys, stateFile, ft, tlOutput, events, tlLog, tailOthers>>

\* the ctx.Done case of the loop
TailCancelled ==
    \E r \in Readers :
        /\ tail[r].pc = "loop"
        /\ ft.ctxDone
        /\ IF tail[r].batch # <<>>
           THEN tail' = [tail EXCEPT ![r] = CallSendBatch(@, "exit")] /\ ft' = ft
           ELSE tail' = TailExit(r) /\ ft' = [ft EXCEPT !.files = 0]
        /\ UNCHANGED <<fsys, stateFile, tlOutput, events, tlLog, tailOthers>>

\* sendBatch returns to tailFile, which clears the batch or returns itself
SendBatchReturns(r) ==
    IF tail[r].after = "exit"
    THEN tail' = TailExit(r) /\ ft' = [ft EXCEPT !.files = 0]
    ELSE /\ tail' = [tail EXCEPT ![r].pc = "loop", ![r].batch = <<>>, ![r].i = 0]
         /\ ft' = ft

\* sendBatch goes on to the next line of the batch
NextLine(r) ==
    IF tail[r].i < Len(tail[r].batch)
    THEN tail' = [tail EXCEPT ![r].i = @ + 1] /\ ft' = ft
    ELSE SendBatchReturns(r)

\* sendBatch: the line goes on the output channel
SendLine ==
    \E r \in Readers :
        /\ tail[r].pc = "send"
        /\ Len(tlOutput) < TailOutputCap
        /\ tlOutput' = Append(tlOutput, tail[r].batch[tail[r].i])
        /\ tlLog' = [tlLog EXCEPT
                        !.emitted[ft.life] = Append(@, tail[r].batch[tail[r].i]),
                        !.run = Append(@, tail[r].batch[tail[r].i])]
        /\ NextLine(r)
        /\ UNCHANGED <<fsys, stateFile, events, tailOthers>>

\* sendBatch: ctx.Done is chosen, the rest of the batch is not sent
SendCancelled ==
    \E r \in Readers :
        /\ tail[r].pc = "send"
        /\ ft.ctxDone
        /\ SendBatchReturns(r)
        /\ UNCHANGED <<fsys, stateFile, tlOutput, events, tlLog, tailOthers>>

\* sendBatch: the channel stayed full for five seconds, the line is dropped
SendDrop ==
    \E r \in Readers :
        /\ tail[r].pc = "send"
        /\ ~ft.ctxDone
        /\ Len(tlOutput) = TailOutputCap
        /\ NextLine(r)
        /\ UNCHANGED <<fsys, stateFile, tlOutput, events, tlLog, tailOthers>>

\* the consumer receives a line from the output channel
TailConsume ==
    /\ tlOutput # <<>>
    /\ tlOutput' = Tail(tlOutput)
    /\ UNCHANGED <<fsys, stateFile, ft, tail, events, tlLog, tailOthers>>

\* the writer appends one byte to the file at the path
WriterAppend ==
    /\ fsys.at # 0
    /\ Len(fsys.files[fsys.at]) < MaxFileLen
    /\ \E newline \in BOOLEAN :
        fsys' = [fsys EXCEPT !.files[fsys.at] =
                    Append(@, ByteAt(fsys.at, Len(@) + 1, newline))]
    /\ UNCHANGED <<stateFile, ft, tail, tlOutput, events, tlLog, tailOthers>>

\* the writer renames the file and creates a new one at the path; the
\* watcher reports the rename when the path is watched
WriterRotate ==
    /\ fsys.at # 0
    /\ fsys.at < NumInodes
    /\ fsys' = [fsys EXCEPT !.at = @ + 1]
    /\ events' = IF ft.watching THEN Append(events, "rename") ELSE events
    /\ UNCHANGED <<stateFile, ft, tail, tlOutput, tlLog, tailOthers>>

\* f.Close() on the file in ft.files[path], if there is one
CloseFiles(tl) ==
    IF ft.files = 0 THEN tl ELSE [tl EXCEPT ![ft.files].closed = TRUE]

\* watchEvents receives a rename event: handleEvent, handleRotation
HandleRotation ==
    /\ ft.pc = "running"
    /\ events # <<>>
    /\ events' = Tail(events)
    /\ LET reset == IF ft.states # NoState
                    THEN <<[ft.states[1] EXCEPT !.Offset = 0]>> ELSE ft.states
           r == AddFile(reset, ft.watching)
       IN
        /\ ft' = [ft EXCEPT !.files = 0, !.states = r.states,
                            !.watching = r.watching]
        /\ tail' = IF r.started THEN Started(CloseFiles(tail))
                   ELSE CloseFiles(tail)
        /\ tlLog' = [tlLog EXCEPT !.rotations = 1,
                        !.run = IF r.started THEN <<>> ELSE @]
    /\ UNCHANGED <<fsys, stateFile, tlOutput, tailOthers>>

\* Stop up to wg.Wait: cancel, close the files, close the watcher
StopCancel ==
    /\ ft.pc = "running"
    /\ ft' = [ft EXCEPT !.pc = "stopping", !.ctxDone = TRUE, !.watching = FALSE]
    /\ tail' = CloseFiles(tail)
    /\ events' = <<>>
    /\ UNCHANGED <<fsys, stateFile, tlOutput, tlLog, tailOthers>>

\* Stop from wg.Wait on: the goroutines are gone, saveState
StopReturn ==
    /\ ft.pc = "stopping"
    /\ \A r \in Readers : tail[r].pc \in {"none", "done"}
    /\ stateFile' = [exists |-> TRUE, states |-> ft.states]
    /\ ft' = [ft EXCEPT !.pc = "stopped"]
    /\ UNCHANGED <<fsys, tail, tlOutput, events, tlLog, tailOthers>>

\* the next process: New with the same StateFile and a new output channel
TailerNew ==
    /\ ft.pc = "stopped"
    /\ ft.life < MaxLives
    /\ ft' = NewTailer(ft.life + 1, ft.BatchSize)
    /\ tail' = [r \in Readers |-> NoTail]
    /\ tlOutput' = <<>>
    /\ UNCHANGED <<fsys, stateFile, events, tlLog, tailOthers>>

TailerNext ==
    \/ TailerAddFile
    \/ TailerStart
    \/ TailOpen
    \/ TailRead
    \/ TailTimer
    \/ TailCancelled
    \/ SendLine
    \/ SendCancelled
    \/ SendDrop
    \/ TailConsume
    \/ WriterAppend
    \/ WriterRotate
    \/ HandleRotation
    \/ StopCancel
    \/ StopReturn
    \/ TailerNew

\* no tailFile goroutine reads the path, or the one that does has emitted
\* all it read and waits at the end of the file the path names
TailIdle ==
    \A r \in Readers :
        \/ tail[r].pc \in {"none", "done"}
        \/ /\ tail[r].pc = "loop"
           /\ ~tail[r].closed
           /\ tail[r].batch = <<>>
           /\ tail[r].fd = fsys.at
           /\ tail[r].pos >= Len(fsys.files[tail[r].fd])

\* the lines the first tailFile goroutine has read and sendBatch has not
\* dealt with yet
Pending ==
    IF tail[1].pc = "send"
    THEN SubSeq(tail[1].batch, tail[1].i, Len(tail[1].batch))
    ELSE tail[1].batch

\* C11: within one process lifetime and before Stop, the lines emitted so
\* far followed by the lines still in the reader's batch are exactly the
\* complete lines of the file up to the reader's position: each complete
\* line once, in file order, none skipped and none emitted twice.
C11_EveryLineEmittedOnce ==
    (ft.life = 1 /\ ~ft.ctxDone /\ tail[1].pc \in {"loop", "send"}
        /\ tail[1].fd = 1)
        => tlLog.emitted[1] \o Pending
               = LinesOf(SubSeq(fsys.files[1], 1, tail[1].pos))

\* C12: once Stop has returned (no rotation having happened), the offset
\* saved in the state file is the position right behind the terminator of
\* the last line emitted on the output channel, 0 when none was emitted.
C12_SavedOffsetBehindLastEmitted ==
    (ft.life = 1 /\ ft.pc = "stopped" /\ fsys.at = 1
        /\ stateFile.states # NoState)
        => stateFile.states[1].Offset =
               IF tlLog.emitted[1] = <<>> THEN 0
               ELSE LET line == tlLog.emitted[1][Len(tlLog.emitted[1])]
                    IN EndOf(line[Len(line)])

\* C13: a first tailer read the file, emitted its lines and was stopped with
\* the offset saved; the second tailer, constructed on the same state file,
\* given AddFile for the path and started, has, once no reader has work
\* left, emitted exactly the complete lines behind the saved offset.
C13_RestartEmitsAppendedLines ==
    (/\ ft.life = 2 /\ ft.pc = "running" /\ fsys.at = 1
     /\ stateFile.states # NoState
     /\ tlLog.emitted[1] # <<>>
     /\ tlLog.emitted[1] = LinesOf(SubSeq(fsys.files[1], 1, stateFile.states[1].Offset))
     /\ TailIdle)
        => tlLog.emitted[2] = LinesOf(Behind(fsys.files[1], stateFile.states[1].Offset))

\* C14: after the tracked file was renamed, a new file was created at the
\* path and the tailer handled the rename event, the lines of the new file
\* are emitted from its beginning: once no reader has work left, every
\* complete line of the new file is among the lines emitted.
C14_NewFileEmittedAfterRotation ==
    (/\ ft.life = 1 /\ ft.pc = "running" /\ fsys.at = 2
     /\ tlLog.rotations = 1 /\ events = <<>>
     /\ TailIdle)
        => \E n \in 0..Len(tlLog.emitted[1]) :
               Behind(tlLog.emitted[1], n) = LinesOf(fsys.files[2])

\* C27: a tailer constructed on the state file a stopped tailer saved, and
\* given AddFile for the path, reads the file: a reader is started, and it
\* begins at the saved offset when the file at the path has the saved inode,
\* at offset 0 when it has another.
C27_SameStreamIffIdentityMatches ==
    (/\ ft.life = 2 /\ ft.pc \in {"start", "running"}
     /\ stateFile.states # NoState)
        => /\ \E r \in Readers : tail[r].pc # "none"
           /\ \A i \in 1..Len(tlLog.began[2]) :
                  tlLog.began[2][i].at =
                      IF stateFile.states[1].Inode = tlLog.began[2][i].fd
                      THEN stateFile.states[1].Offset ELSE 0

\* the complete lines of the files, each from the first byte behind the
\* preceding newline (or the start of the file) through its own newline
CompleteLines == UNION {Range(LinesOf(fsys.files[ino])) : ino \in Inodes}

\* C30: every record emitted on the output channel is one complete line of
\* a file: all its bytes from the start of the line through the newline,
\* also when the reader met the end of the file in the middle of the line.
C30_EmittedRecordsAreCompleteLines ==
    \A l \in Lives : \A i \in 1..Len(tlLog.emitted[l]) :
        tlLog.emitted[l][i] \in CompleteLines

\* the count of dropped lines the tailer keeps: FileTailer has no field for
\* it, and sendBatch only prints a warning when it drops a line
DroppedLines == 0

\* reader r, in sendBatch and not cancelled, is done with the line it held
HandledLine(r) ==
    /\ tail[r].pc = "send"
    /\ ~ft.ctxDone
    /\ tail'[r].i # tail[r].i \/ tail'[r].pc # "send"

\* C31: while the tailer is not cancelled, each line handed to sendBatch is
\* either placed on the output channel or, the channel being full, dropped
\* and counted in the dropped-lines counter.
C31_LinePlacedOrDroppedAndCounted ==
    [][\A r \in Readers :
          HandledLine(r) =>
              \/ tlOutput' = Append(tlOutput, tail[r].batch[tail[r].i])
              \/ /\ Len(tlOutput) = TailOutputCap
                 /\ DroppedLines' = DroppedLines + 1]_vars

\* a reader in sendBatch is never held by a full output channel: it can go
\* on to the next line whatever the channel holds
SendNeverBlocked ==
    \A r \in Readers :
        tail[r].pc = "send" =>
            \/ Len(tlOutput) < TailOutputCap
            \/ ft.ctxDone
            \/ ENABLED SendDrop

(***************************************************************************)
(* The tailer when the program stops tailing the path and tails it again:  *)
(* RemoveFile(path), AddFile(path), while the tailer runs.                 *)
(***************************************************************************)
\* the program calls RemoveFile(path)
TailerRemoveFile ==
    /\ ft.pc = "running"
    /\ ft.removes < MaxRemoves
    /\ ft' = [ft EXCEPT !.states = NoState, !.files = 0, !.watching = FALSE,
                        !.removes = @ + 1]
    /\ tail' = CloseFiles(tail)
    /\ UNCHANGED <<fsys, stateFile, tlOutput, events, tlLog, tailOthers>>

\* the program calls AddFile(path) on the running tailer
TailerAddFileAgain ==
    /\ ft.pc = "running"
    /\ ft.removes > 0
    /\ LET r == AddFile(ft.states, ft.watching) IN
        /\ ft' = [ft EXCEPT !.states = r.states, !.watching = r.watching]
        /\ tail' = IF r.started THEN Started(tail) ELSE tail
        /\ tlLog' = IF r.started THEN [tlLog EXCEPT !.run = <<>>] ELSE tlLog
    /\ UNCHANGED <<fsys, stateFile, tlOutput, events, tailOthers>>

ReadersNext ==
    \/ TailerAddFile
    \/ TailerStart
    \/ TailOpen
    \/ TailRead
    \/ TailTimer
    \/ SendLine
    \/ SendDrop
    \/ TailConsume
    \/ WriterAppend
    \/ TailerRemoveFile
    \/ TailerAddFileAgain

\* the tailFile goroutines that have not returned
LiveReaders == {r \in Readers : tail[r].pc \in {"open", "loop", "send"}}

\* the file a byte belongs to
InodeOf(b) == LET n == IF b < 0 THEN 0 - b ELSE b IN ((n - 1) \div MaxFileLen) + 1

\* lines of one file come in the order of their positions in the file
InFileOrder(lines) ==
    \A i, j \in 1..Len(lines) :
        (i < j /\ InodeOf(lines[i][1]) = InodeOf(lines[j][1]))
            => EndOf(lines[i][Len(lines[i])]) < EndOf(lines[j][Len(lines[j])])

\* C24: at any time at most one tailFile goroutine exists for the path, also
\* after RemoveFile followed by AddFile, and the lines emitted since AddFile
\* last started a reader are in file order.
C24_OneReaderLinesInFileOrder ==
    /\ Cardinality(LiveReaders) <= 1
    /\ InFileOrder(tlLog.run)

(***************************************************************************)
(* The tailer's read loop step by step: ReadString returns a line, and     *)
(* then updateOffset takes statesMu; handleRotation can run in between.    *)
(***************************************************************************)

\* line, err := reader.ReadString('\n') with err == nil
TailReadString ==
    \E r \in Readers :
        /\ tail[r].pc = "loop"
        /\ ~ft.ctxDone
        /\ ~tail[r].closed
        /\ LET ahead == Behind(fsys.files[tail[r].fd], tail[r].pos)
               n == LineLen(ahead)
           IN  /\ n > 0
               /\ tail' = [tail EXCEPT ![r].pc = "update", ![r].pos = @ + n,
                                       ![r].offset = @ + n,
                                       ![r].batch = Append(@, SubSeq(ahead, 1, n))]
        /\ UNCHANGED <<fsys, stateFile, ft, tlOutput, events, tlLog, tailOthers>>

\* ReadString returns io.EOF, or another error on the closed file
TailReadError ==
    \E r \in Readers :
        /\ tail[r].pc = "loop"
        /\ ~ft.ctxDone
        /\ LET ahead == Behind(fsys.files[tail[r].fd], tail[r].pos)
               skipped == [tail[r] EXCEPT !.pos = @ + Len(ahead)]
           IN  IF tail[r].closed
               THEN /\ tail' = TailExit(r)
                    /\ ft' = [ft EXCEPT !.files = 0]
               ELSE /\ LineLen(ahead) = 0
                    /\ tail' = [tail EXCEPT ![r] =
                                   IF tail[r].batch # <<>>
                                   THEN CallSendBatch(skipped, "loop") ELSE skipped]
                    /\ ft' = ft
        /\ UNCHANGED <<fsys, stateFile, tlOutput, events, tlLog, tailOthers>>

\* ft.updateOffset(path, offset), then the batch is sent if it is full
TailUpdateOffset ==
    \E r \in Readers :
        /\ tail[r].pc = "update"
        /\ tail' = [tail EXCEPT ![r] =
                       IF Len(tail[r].batch) >= ft.BatchSize
                       THEN CallSendBatch(tail[r], "loop")
                       ELSE [tail[r] EXCEPT !.pc = "loop"]]
        /\ ft' = IF ft.states # NoState
                 THEN [ft EXCEPT !.states[1].Offset = tail[r].offset]
                 ELSE ft
        /\ UNCHANGED <<fsys, stateFile, tlOutput, events, tlLog, tailOthers>>

RotateNext ==
    \/ TailerAddFile
    \/ TailerStart
    \/ TailOpen
    \/ TailReadString
    \/ TailReadError
    \/ TailUpdateOffset
    \/ TailTimer
    \/ SendLine
    \/ SendDrop
    \/ TailConsume
    \/ WriterAppend
    \/ WriterRotate
    \/ HandleRotation

\* the stored offset of the path, 0 when the path has no state
StoredOffset(t) == IF t.states = NoState THEN 0 ELSE t.states[1].Offset

\* the reader's updateOffset returns in this step
UpdatesOffset(r) == tail[r].pc = "update" /\ tail'[r].pc # "update"

\* C39: once handleRotation has reset the stored offset of the path to 0,
\* only a reader of the new file moves it away from 0: the reader whose
\* file handleRotation closed does not write its offset into the state.
C39_OffsetStaysResetUntilNewReader ==
    [][(/\ tlLog.rotations = 1
        /\ StoredOffset(ft) = 0
        /\ StoredOffset(ft') # 0)
          => \E r \in Readers :
                 /\ UpdatesOffset(r)
                 /\ ~tail[r].closed
                 /\ tail[r].fd = fsys.at]_vars

\* until a rename event is handled, the stored offset is the offset of the
\* reader that wrote it, and that reader reads the file at the path or the
\* file that was renamed
OffsetWrittenByReaderBeforeRotation ==
    [][(tlLog'.rotations = 0 /\ StoredOffset(ft') # StoredOffset(ft))
          => \E r \in Readers :
                 /\ UpdatesOffset(r)
                 /\ ~tail[r].closed
                 /\ StoredOffset(ft') = tail[r].offset]_vars

(***************************************************************************)
(* The tailer when the notifier is silent: the file at the path is         *)
(* replaced by another file and no event reaches watchEvents (the event    *)
(* queue overflowed, or the notifier failed).  The goroutines keep         *)
(* running: every step of tailFile and sendBatch that can be taken is      *)
(* taken eventually.                                                       *)
(***************************************************************************)
WriterReplace ==
    /\ fsys.at # 0
    /\ fsys.at < NumInodes
    /\ fsys' = [fsys EXCEPT !.at = @ + 1]
    /\ UNCHANGED <<stateFile, ft, tail, tlOutput, events, tlLog, tailOthers>>

SilentNext ==
    \/ TailerAddFile
    \/ TailerStart
    \/ TailOpen
    \/ TailRead
    \/ TailTimer
    \/ SendLine
    \/ SendDrop
    \/ TailConsume
    \/ WriterAppend
    \/ WriterReplace

SilentFairness ==
    /\ WF_vars(TailOpen)
    /\ WF_vars(TailRead)
    /\ WF_vars(TailTimer)
    /\ WF_vars(SendLine \/ SendDrop)

\* C29: when the file a reader has open is no longer the file at the path
\* and no event was delivered, the reader eventually has the file that is
\* at the path now open (from where it reads and emits its lines).
C29_SilentReplacementDetected ==
    (\E r \in Readers : tail[r].pc = "loop" /\ tail[r].fd # fsys.at)
        ~> (\E r \in Readers : tail[r].pc \in {"loop", "send"}
                                /\ tail[r].fd = fsys.at)

(***************************************************************************)
(* BUFFER  (src/internal/agent/buffer/buffer.go, package buffer)           *)
(*                                                                         *)
(* One buffer, a MemoryBuffer or a DiskBuffer as buffer.New builds it from *)
(* the configuration.  Entries are their IDs; every Add brings a new ID.   *)
(* The size of a segment file is counted in entries.  Whether the file     *)
(* system lets a segment be written is the environment's choice, call by   *)
(* call.                                                                   *)
(***************************************************************************)
MaxBufEntries == 2

MaxBufAdds == 3

DiskMaxSize == 2

BufIds == 1..MaxBufAdds

NoOp == [op |-> "none", limit |-> 0, ids |-> {}, before |-> <<>>,
         result |-> <<>>, failed |-> FALSE]

\* observations: the IDs added, the IDs removed, the last operation, the
\* IDs in segment files that cleanup deleted, the times the buffer was
\* closed and constructed again
NewBufLog ==
    [added |-> <<>>, removed |-> {}, last |-> NoOp, deleted |-> {}, reopened |-> 0]

\* New: NewMemoryBuffer(MaxSize, Path) or NewDiskBuffer(Path, MaxSize, ...)
BufferInit ==
    /\ \E kind \in {"memory", "disk"}, max \in 1..MaxBufEntries,
          path \in {"", "/var/lib/logagent/buffer"} :
        buf = [kind |-> kind, max |-> max, diskPath |-> path, entries |-> <<>>,
               currentSize |-> 0, failed |-> FALSE]
    /\ bufFiles = <<>>
    /\ bufLog = NewBufLog

\* spillToDisk on buffer b with segment files fs; ok: the directory can be
\* made and the file written
spillToDisk(b, fs, ok) ==
    IF b.entries = <<>> THEN [b |-> b, fs |-> fs]
    ELSE IF ~ok THEN [b |-> [b EXCEPT !.failed = TRUE], fs |-> fs]
    ELSE [b |-> [b EXCEPT !.entries = <<>>], fs |-> Append(fs, b.entries)]

\* MemoryBuffer.Add and AddBatch: entry by entry; b.failed is the error,
\* taken the number of entries appended before it
RECURSIVE MemoryAdd(_, _, _, _)
MemoryAdd(b, fs, es, ok) ==
    IF es = <<>> THEN [b |-> b, fs |-> fs, taken |-> 0]
    ELSE LET s == IF Len(b.entries) >= b.max THEN spillToDisk(b, fs, ok)
                  ELSE [b |-> b, fs |-> fs]
         IN IF s.b.failed THEN [b |-> s.b, fs |-> s.fs, taken |-> 0]
            ELSE LET r == MemoryAdd([s.b EXCEPT !.entries = Append(@, Head(es))],
                                    s.fs, Tail(es), ok)
                 IN [r EXCEPT !.taken = @ + 1]

\* DiskBuffer.cleanup: the oldest segment files go until the size fits
RECURSIVE cleanup(_, _)
cleanup(b, fs) ==
    IF fs = <<>> THEN [b |-> b, fs |-> fs]
    ELSE LET size == b.currentSize - Len(Head(fs)) IN
         IF size <= DiskMaxSize
         THEN [b |-> [b EXCEPT !.currentSize = size], fs |-> Tail(fs)]
         ELSE cleanup([b EXCEPT !.currentSize = size], Tail(fs))

\* DiskBuffer.flush
flush(b, fs, ok) ==
    IF b.entries = <<>> THEN [b |-> b, fs |-> fs]
    ELSE IF ~ok THEN [b |-> [b EXCEPT !.failed = TRUE], fs |-> fs]
    ELSE LET size == b.currentSize + Len(b.entries)
             flushed == [b EXCEPT !.entries = <<>>, !.currentSize = size]
         IN IF size > DiskMaxSize THEN cleanup(flushed, Append(fs, b.entries))
            ELSE [b |-> flushed, fs |-> Append(fs, b.entries)]

\* DiskBuffer.Add and AddBatch
DiskAdd(b, fs, es, ok) ==
    LET appended == [b EXCEPT !.entries = @ \o es]
        r == IF Len(appended.entries) >= b.max THEN flush(appended, fs, ok)
             ELSE [b |-> appended, fs |-> fs]
    IN [b |-> r.b, fs |-> r.fs, taken |-> Len(es)]

\* Add (one entry) or AddBatch (several) returns
Added(op, es, r) ==
    /\ buf' = [r.b EXCEPT !.failed = FALSE]
    /\ bufFiles' = r.fs
    /\ bufLog' = [bufLog EXCEPT !.added = @ \o SubSeq(es, 1, r.taken),
                     !.last = [NoOp EXCEPT !.op = op, !.before = buf.entries,
                                           !.failed = r.b.failed]]

BufAdd ==
    /\ Len(bufLog.added) < MaxBufAdds
    /\ \E ok \in BOOLEAN :
        LET es == <<Len(bufLog.added) + 1>> IN
        Added("Add", es, IF buf.kind = "memory" THEN MemoryAdd(buf, bufFiles, es, ok)
                         ELSE DiskAdd(buf, bufFiles, es, ok))
    /\ UNCHANGED bufOthers

BufAddBatch ==
    /\ Len(bufLog.added) + 2 <= MaxBufAdds
    /\ \E ok \in BOOLEAN :
        LET es == <<Len(bufLog.added) + 1, Len(bufLog.added) + 2>> IN
        Added("AddBatch", es,
              IF buf.kind = "memory" THEN MemoryAdd(buf, bufFiles, es, ok)
              ELSE DiskAdd(buf, bufFiles, es, ok))
    /\ UNCHANGED bufOthers

\* Get of either implementation
BufferGet(entries, limit) == SubSeq(entries, 1, Min(limit, Len(entries)))

BufGet ==
    /\ \E limit \in 0..MaxBufAdds :
        bufLog' = [bufLog EXCEPT !.last =
                      [NoOp EXCEPT !.op = "Get", !.limit = limit,
                                   !.before = buf.entries,
                                   !.result = BufferGet(buf.entries, limit)]]
    /\ UNCHANGED <<buf, bufFiles, bufOthers>>

\* Remove of either implementation
RemoveUnlisted(entries, ids) == SelectSeq(entries, LAMBDA id : id \in ids)

Remove(entries, ids) == SelectSeq(entries, LAMBDA id : id \notin ids)

BufRemove ==
    /\ \E ids \in SUBSET BufIds :
        /\ buf' = [buf EXCEPT !.entries = Remove(@, ids)]
        /\ bufLog' = [bufLog EXCEPT !.removed = @ \cup (ids \cap Range(bufLog.added)),
                         !.last = [NoOp EXCEPT !.op = "Remove", !.ids = ids,
                                               !.before = buf.entries]]
    /\ UNCHANGED <<bufFiles, bufOthers>>

\* DiskBuffer.backgroundFlush: the ticker fired
BufBackgroundFlush ==
    /\ buf.kind = "disk"
    /\ buf.entries # <<>>
    /\ \E ok \in BOOLEAN :
        LET r == flush(buf, bufFiles, ok) IN
        /\ buf' = [r.b EXCEPT !.failed = FALSE]
        /\ bufFiles' = r.fs
        /\ bufLog' = [bufLog EXCEPT !.last = [NoOp EXCEPT !.op = "flush",
                                                 !.before = buf.entries]]
    /\ UNCHANGED bufOthers

BufferNext ==
    \/ BufAdd
    \/ BufAddBatch
    \/ BufGet
    \/ BufRemove
    \/ BufBackgroundFlush

\* the entries added and not removed since, in insertion order
Kept == SelectSeq(bufLog.added, LAMBDA id : id \notin bufLog.removed)

\* C15 as stated: the content visible through Get is exactly the entries
\* added and not since removed, in insertion order.
C15_GetShowsAddedNotRemoved == buf.entries = Kept

\* C15, amended: the content visible through Get is, in insertion order, a
\* tail of the entries added and not removed (what came before was written
\* to a segment file and cleared); Get(limit) returns the first
\* min(limit, Size) entries of it and changes nothing; Remove(ids) deletes
\* exactly the entries whose ID is listed.
C15_GetShowsTailOfKept ==
    /\ \E n \in 0..Len(Kept) : buf.entries = Behind(Kept, n)
    /\ bufLog.last.op = "Get" =>
        /\ buf.entries = bufLog.last.before
        /\ Len(bufLog.last.result) = Min(bufLog.last.limit, Len(buf.entries))
        /\ bufLog.last.result = SubSeq(buf.entries, 1, Len(bufLog.last.result))
    /\ bufLog.last.op = "Remove" =>
        /\ \A i \in 1..Len(buf.entries) : buf.entries[i] \notin bufLog.last.ids
        /\ \E keep \in [1..Len(buf.entries) -> 1..Len(bufLog.last.before)] :
            /\ \A i \in 1..Len(buf.entries) :
                   buf.entries[i] = bufLog.last.before[keep[i]]
            /\ \A i, j \in 1..Len(buf.entries) : i < j => keep[i] < keep[j]
        /\ \A i \in 1..Len(bufLog.last.before) :
               bufLog.last.before[i] \notin bufLog.last.ids
                   => bufLog.last.before[i] \in Range(buf.entries)

\* a Get that cut the content at its limit, and a Remove that took one entry
\* of several, on a buffer that had spilled or flushed before
C15_Witness ==
    /\ bufFiles # <<>>
    /\ \/ /\ bufLog.last.op = "Get"
          /\ bufLog.last.limit < Len(buf.entries)
          /\ bufLog.last.limit > 0
       \/ /\ bufLog.last.op = "Remove"
          /\ Len(buf.entries) > 0
          /\ Len(buf.entries) < Len(bufLog.last.before)

\* C16: Add or AddBatch on a memory buffer that is at its capacity and has
\* no overflow path configured fails and leaves the contents as they were.
C16_FullBufferRejectsAdd ==
    (/\ bufLog.last.op \in {"Add", "AddBatch"}
     /\ buf.kind = "memory" /\ buf.diskPath = ""
     /\ Len(bufLog.last.before) >= buf.max)
        => bufLog.last.failed /\ buf.entries = bufLog.last.before

(***************************************************************************)
(* The disk buffer over process lifetimes: entries are added and flushed,  *)
(* the buffer is closed, and NewDiskBuffer runs again on the same          *)
(* directory, where the segment files are still there.                     *)
(***************************************************************************)
MaxBufReopens == 1

\* the IDs in the segment files fs
RECURSIVE IdsIn(_)
IdsIn(fs) == IF fs = <<>> THEN {} ELSE Range(Head(fs)) \cup IdsIn(Tail(fs))

\* the aggregate size of the segment files fs
RECURSIVE SegmentsSize(_)
SegmentsSize(fs) == IF fs = <<>> THEN 0 ELSE Len(Head(fs)) + SegmentsSize(Tail(fs))

\* the IDs that were in segment files, or were flushed to one, and are in
\* none when the operation has ended with the buffer r.b and the files r.fs
Deleted(es, r) ==
    (IdsIn(bufFiles) \cup Range(buf.entries) \cup Range(es))
        \ (IdsIn(r.fs) \cup Range(r.b.entries))

\* Add on the disk buffer
DiskBufAdd ==
    /\ buf.kind = "disk"
    /\ Len(bufLog.added) < MaxBufAdds
    /\ \E ok \in BOOLEAN :
        LET es == <<Len(bufLog.added) + 1>>
            r == DiskAdd(buf, bufFiles, es, ok)
        IN  /\ buf' = [r.b EXCEPT !.failed = FALSE]
            /\ bufFiles' = r.fs
            /\ bufLog' = [bufLog EXCEPT !.added = @ \o es,
                             !.last = [NoOp EXCEPT !.op = "Add",
                                 !.before = buf.entries, !.failed = r.b.failed],
                             !.deleted = @ \cup Deleted(es, r)]
    /\ UNCHANGED bufOthers

\* backgroundFlush on the disk buffer: the ticker fired
DiskBufFlush ==
    /\ buf.kind = "disk"
    /\ buf.entries # <<>>
    /\ \E ok \in BOOLEAN :
        LET r == flush(buf, bufFiles, ok) IN
        /\ buf' = [r.b EXCEPT !.failed = FALSE]
        /\ bufFiles' = r.fs
        /\ bufLog' = [bufLog EXCEPT
                         !.last = [NoOp EXCEPT !.op = "flush",
                             !.before = buf.entries, !.failed = r.b.failed],
                         !.deleted = @ \cup Deleted(<<>>, r)]
    /\ UNCHANGED bufOthers

\* Close (cancel, the final flush), the process ends, and NewDiskBuffer
\* runs with the same configuration: no entries, currentSize 0
DiskBufReopen ==
    /\ buf.kind = "disk"
    /\ bufLog.reopened < MaxBufReopens
    /\ \E ok \in BOOLEAN :
        LET r == flush(buf, bufFiles, ok) IN
        /\ buf' = [buf EXCEPT !.entries = <<>>, !.currentSize = 0,
                              !.failed = FALSE]
        /\ bufFiles' = r.fs
        /\ bufLog' = [bufLog EXCEPT
                         !.last = [NoOp EXCEPT !.op = "Close",
                             !.before = buf.entries, !.failed = r.b.failed],
                         !.deleted = @ \cup (IdsIn(bufFiles) \ IdsIn(r.fs)),
                         !.reopened = @ + 1]
    /\ UNCHANGED bufOthers

DiskBufferNext ==
    \/ DiskBufAdd
    \/ DiskBufFlush
    \/ DiskBufReopen

\* the last operation ran flush and flush wrote its segment file
FlushCompleted ==
    /\ bufLog.last.op \in {"Add", "flush", "Close"}
    /\ bufLog.last.before # <<>> \/ bufLog.last.op = "Add"
    /\ ~bufLog.last.failed
    /\ buf.entries = <<>>

\* C25: after every flush of the disk buffer that completes, the segment
\* files on disk hold at most MaxSize together, and every entry of a
\* deleted segment is older than every entry of a segment that is kept.
C25_RetentionAfterFlush ==
    (buf.kind = "disk" /\ FlushCompleted) =>
        /\ SegmentsSize(bufFiles) <= DiskMaxSize
        /\ \A d \in bufLog.deleted : \A k \in IdsIn(bufFiles) : d < k

(***************************************************************************)
(* LOG ENTRY  (src/pkg/models/log_entry.go)                                *)
(*                                                                         *)
(* A LogEntry has a Fields map and a Tags slice of its own.  A field value *)
(* is an interface{}: a string, or a JSON object, which json.Unmarshal     *)
(* decodes to a map[string]interface{} and which the entry holds by        *)
(* reference.  An entry is built by NewLogEntry, AddField and AddTag (as   *)
(* JSONParser.Parse does for every member of the decoded line), then       *)
(* Clone is called, and the caller works on the clone.                     *)
(***************************************************************************)
MaxObjs == 1   \* JSON objects allocated
MaxTags == 1   \* tags per entry

Keys == {"k1", "k2"}
Strs == {"x", "y"}
TagNames == {"t1", "t2"}
Addrs == 1..MaxObjs

\* interface{} values: no value, a string, a reference to a map
Absent == [kind |-> "absent", str |-> "", ref |-> 0]
StrValue(s) == [kind |-> "str", str |-> s, ref |-> 0]
MapValue(a) == [kind |-> "map", str |-> "", ref |-> a]

\* a JSON object: member -> string, "" for a member that is not there
EmptyObject == [k \in Keys |-> ""]
Objects == [Keys -> Strs \cup {""}]

NewLogEntry == [Fields |-> [k \in Keys |-> Absent], Tags |-> <<>>]

AddField(l, key, value) == [l EXCEPT !.Fields[key] = value]

AddTag(l, tag) == [l EXCEPT !.Tags = Append(@, tag)]

\* Clone: a new Fields map that receives every value of l.Fields as it is
\* (clone.Fields[k] = v: a reference stays the same reference), a new Tags
\* slice of the same length with the tags copied
Clone(l) ==
    [Fields |-> [k \in Keys |-> l.Fields[k]],
     Tags |-> [i \in 1..Len(l.Tags) |-> l.Tags[i]]]

\* what an entry is worth: its fields with the maps they refer to, its tags
Content(l, h) ==
    [Fields |-> [k \in Keys |->
                    [kind |-> l.Fields[k].kind, str |-> l.Fields[k].str,
                     object |-> IF l.Fields[k].kind = "map"
                                THEN h.objs[l.Fields[k].ref] ELSE EmptyObject]],
     Tags |-> l.Tags]

CloneInit ==
    /\ heap = [objs |-> [a \in Addrs |-> EmptyObject], used |-> 0]
    /\ original = NewLogEntry
    /\ clone = NewLogEntry
    /\ cloneLog = [cloned |-> FALSE, before |-> Content(NewLogEntry,
                       [objs |-> [a \in Addrs |-> EmptyObject], used |-> 0]),
                   touched |-> FALSE]

cloneOthers == <<shipVars, storeVars, rcvVars, pipeVars, queryVars, tailVars,
    bufVars, searchVars, lockVars>>

\* original.AddField(key, "...")
OriginalAddField ==
    \E key \in Keys, s \in Strs :
        /\ ~cloneLog.cloned
        /\ original' = AddField(original, key, StrValue(s))
        /\ UNCHANGED <<heap, clone, cloneLog, cloneOthers>>

\* original.AddField(key, value) with a decoded JSON object for value
OriginalAddObject ==
    \E key \in Keys, obj \in Objects :
        /\ ~cloneLog.cloned
        /\ heap.used < MaxObjs
        /\ heap' = [objs |-> [heap.objs EXCEPT ![heap.used + 1] = obj],
                    used |-> heap.used + 1]
        /\ original' = AddField(original, key, MapValue(heap.used + 1))
        /\ UNCHANGED <<clone, cloneLog, cloneOthers>>

\* original.AddTag(tag)
OriginalAddTag ==
    \E tag \in TagNames :
        /\ ~cloneLog.cloned
        /\ Len(original.Tags) < MaxTags
        /\ original' = AddTag(original, tag)
        /\ UNCHANGED <<heap, clone, cloneLog, cloneOthers>>

\* clone := original.Clone()
CallClone ==
    /\ ~cloneLog.cloned
    /\ clone' = Clone(original)
    /\ cloneLog' = [cloned |-> TRUE, before |-> Content(original, heap),
                    touched |-> FALSE]
    /\ UNCHANGED <<heap, original, cloneOthers>>

\* clone.AddField(key, "..."): adds the field or overwrites it
CloneAddField ==
    \E key \in Keys, s \in Strs :
        /\ cloneLog.cloned
        /\ clone' = AddField(clone, key, StrValue(s))
        /\ cloneLog' = [cloneLog EXCEPT !.touched = TRUE]
        /\ UNCHANGED <<heap, original, cloneOthers>>

\* clone.AddTag(tag)
CloneAddTag ==
    \E tag \in TagNames :
        /\ cloneLog.cloned
        /\ Len(clone.Tags) < MaxTags + 1
        /\ clone' = AddTag(clone, tag)
        /\ cloneLog' = [cloneLog EXCEPT !.touched = TRUE]
        /\ UNCHANGED <<heap, original, cloneOthers>>

\* clone.Fields[key].(map[string]interface{})[member] = "..."
CloneSetMember ==
    \E key \in Keys, member \in Keys, s \in Strs :
        /\ cloneLog.cloned
        /\ clone.Fields[key].kind = "map"
        /\ heap' = [heap EXCEPT !.objs[clone.Fields[key].ref][member] = s]
        /\ cloneLog' = [cloneLog EXCEPT !.touched = TRUE]
        /\ UNCHANGED <<original, clone, cloneOthers>>

CloneNext ==
    \/ OriginalAddField
    \/ OriginalAddObject
    \/ OriginalAddTag
    \/ CallClone
    \/ CloneAddField
    \/ CloneAddTag
    \/ CloneSetMember

\* C21: whatever is done through the clone (a field added or overwritten, a
\* tag appended, a member of a nested field value set), the original entry
\* is worth what it was worth when Clone was called.
C21_CloneIsDeep ==
    cloneLog.cloned => Content(original, heap) = cloneLog.before

(***************************************************************************)
(* Specifications                                                          *)
(***************************************************************************)

\* the receiver, constructed and never started
ReceiverIdle ==
    /\ rcvCfg = [RateLimit |-> 0, RequireAuth |-> FALSE]
    /\ reqs = [r \in Requests |-> IdleRequest]
    /\ output = <<>>
    /\ rcvCtx = "running"
    /\ rcvStats = [RequestsReceived |-> 0, LogsReceived |-> 0, Errors |-> 0]
    /\ rateLimits = <<>>
    /\ rlLog = [a \in Agents |-> <<>>]

\* the pipeline, before its workers received anything
PipelineIdle == NewPipeline([Workers |-> 1, stages |-> <<>>])

\* the query engine, constructed and never used
QueryIdle ==
    /\ qCfg = [CacheSize |-> 1]
    /\ cache = <<>>
    /\ callers = [c \in Callers |-> IdleCaller]
    /\ qLog = NewQueryLog(CHOOSE key \in CacheKeys : TRUE)

\* the shipper, constructed and never used
ShipperIdle ==
    /\ shipCfg = [FailureThreshold |-> 1, SuccessThreshold |-> 1,
                  MaxRetries |-> 0, BatchSize |-> 1]
    /\ inputChan = <<>>
    /\ chanClosed = FALSE
    /\ ctxDone = FALSE
    /\ batch = <<>>
    /\ endpoints = [e \in Endpoints |-> NewEndpoint]
    /\ task = IdleTask
    /\ closePc = "idle"
    /\ panicked = FALSE
    /\ up = {}
    /\ nextEntry = 0
    /\ shipLog = NewShipLog

\* Initial states: one subsystem runs, the others stay as constructed
\* the tailer, constructed and never used
TailerIdle ==
    /\ fsys = [files |-> [ino \in Inodes |-> <<>>], at |-> 1]
    /\ stateFile = NoStateFile
    /\ ft = NewTailer(1, 1)
    /\ tail = [r \in Readers |-> NoTail]
    /\ tlOutput = <<>>
    /\ events = <<>>
    /\ tlLog = NewTlLog

\* the buffer, constructed and never used
BufferIdle ==
    /\ buf = [kind |-> "memory", max |-> 1, diskPath |-> "", entries |-> <<>>,
              currentSize |-> 0, failed |-> FALSE]
    /\ bufFiles = <<>>
    /\ bufLog = NewBufLog

\* no Query call observed yet
SearchIdle == searchLog = NoSearch

\* no entry built yet
CloneIdle == CloneInit

(***************************************************************************)
(* MUTEXES AND CHANNEL SENDS  (all packages)                               *)
(*                                                                         *)
(* Each goroutine runs one function at a time, reduced to the operations   *)
(* it performs on a sync.RWMutex, on a channel it sends to and on its      *)
(* context, in the order of the code.  A consumer takes entries off the    *)
(* channels until it stops receiving.                                      *)
(***************************************************************************)
NumGoroutines == 2
Goroutines == 1..NumGoroutines

\* cap() of every output channel
ChanCap == 1

Channels == {"ft.output", "s.inputChan", "p.output", "r.output"}

Mutexes == {"statesMu", "filesMu", "batchMu", "endpointMu", "ep.mu",
            "statsMu", "rlMu", "rl.mu", "fs.mu", "part.mu", "index.mu"}

\* tailFile: the file is registered, the offset read, one line is read and
\* sent as a batch, and the deferred function removes the file
tailFileLocks ==
    << <<"Lock", "filesMu">>, <<"Unlock", "filesMu">>,
       <<"RLock", "statesMu">>, <<"RUnlock", "statesMu">>,
       <<"Lock", "statesMu">>, <<"Unlock", "statesMu">>,
       <<"SendWait", "ft.output">>,
       <<"Lock", "filesMu">>, <<"Unlock", "filesMu">> >>

AddFileLocks == << <<"Lock", "statesMu">>, <<"Unlock", "statesMu">> >>

RemoveFileLocks ==
    << <<"Lock", "statesMu">>, <<"Unlock", "statesMu">>,
       <<"Lock", "filesMu">>, <<"Unlock", "filesMu">> >>

handleRotationLocks ==
    << <<"Lock", "filesMu">>, <<"Unlock", "filesMu">>,
       <<"Lock", "statesMu">>, <<"Unlock", "statesMu">> >> \o AddFileLocks

\* FileTailer.Stop: cancel, close the files, saveState
TailerStopLocks ==
    << <<"Cancel", "ctx">>,
       <<"Lock", "filesMu">>, <<"Unlock", "filesMu">>,
       <<"RLock", "statesMu">>, <<"RUnlock", "statesMu">> >>

ShipLocks == << <<"Send", "s.inputChan">> >>

\* selectEndpoint, for one endpoint whose circuit is open
selectEndpointLocks ==
    << <<"RLock", "endpointMu">>,
       <<"RLock", "ep.mu">>, <<"RUnlock", "ep.mu">>,
       <<"Lock", "ep.mu">>, <<"Unlock", "ep.mu">>,
       <<"RUnlock", "endpointMu">> >>

\* processBatches takes an entry that fills the batch: sendCurrentBatch,
\* sendWithRetry (selectEndpoint, send, recordSuccess or recordFailure)
processBatchesLocks ==
    << <<"Lock", "batchMu">>, <<"Unlock", "batchMu">>,
       <<"Lock", "batchMu">>, <<"Unlock", "batchMu">> >>
    \o selectEndpointLocks
    \o << <<"Lock", "ep.mu">>, <<"Unlock", "ep.mu">> >>

\* Shipper.Stats
ShipperStatsLocks ==
    << <<"RLock", "endpointMu">>,
       <<"RLock", "ep.mu">>, <<"RUnlock", "ep.mu">>,
       <<"Lock", "batchMu">>, <<"Unlock", "batchMu">>,
       <<"RUnlock", "endpointMu">> >>

\* a worker that holds statsMu from before the send until after it
workerLocksAcrossSend ==
    << <<"Lock", "statsMu">>, <<"Send", "p.output">>, <<"Unlock", "statsMu">> >>

\* Pipeline.worker with an entry that passed the stages: the send, then
\* recordSuccess or recordDrop
workerLocks ==
    << <<"Send", "p.output">>, <<"Lock", "statsMu">>, <<"Unlock", "statsMu">> >>

\* Pipeline.GetStats
GetStatsLocks == << <<"RLock", "statsMu">>, <<"RUnlock", "statsMu">> >>

\* checkRateLimit (with allow inside it), then handleIngest with one entry
handleIngestLocks ==
    << <<"Lock", "rlMu">>, <<"Lock", "rl.mu">>,
       <<"Unlock", "rl.mu">>, <<"Unlock", "rlMu">>,
       <<"Send", "r.output">> >>

\* FileStore.Write, with index.add inside it
StoreWriteLocks ==
    << <<"Lock", "fs.mu">>, <<"Lock", "part.mu">>,
       <<"Lock", "index.mu">>, <<"Unlock", "index.mu">>,
       <<"Unlock", "part.mu">>, <<"Unlock", "fs.mu">> >>

\* FileStore.Delete and FileStore.Close, with one partition
StoreDeleteLocks ==
    << <<"Lock", "fs.mu">>, <<"Lock", "part.mu">>,
       <<"Unlock", "part.mu">>, <<"Unlock", "fs.mu">> >>

\* FileStore.Query and FileStore.Stats
StoreQueryLocks == << <<"RLock", "fs.mu">>, <<"RUnlock", "fs.mu">> >>

\* FileStore.Get
StoreGetLocks == << <<"RLock", "index.mu">>, <<"RUnlock", "index.mu">> >>

Functions ==
    {tailFileLocks, AddFileLocks, RemoveFileLocks, handleRotationLocks, TailerStopLocks, ShipLocks,
     processBatchesLocks, ShipperStatsLocks, workerLocks, GetStatsLocks, handleIngestLocks,
     StoreWriteLocks, StoreDeleteLocks, StoreQueryLocks, StoreGetLocks}

NoFunction == <<>>

LockInit ==
    /\ goroutines = [g \in Goroutines |-> [run |-> NoFunction, at |-> 1, waiting |-> FALSE]]
    /\ mutexes = [m \in Mutexes |-> [writer |-> 0, readers |-> {}]]
    /\ chanLen = [c \in Channels |-> 0]
    /\ consuming = TRUE
    /\ cancelled = FALSE

lockOthers == <<shipVars, storeVars, rcvVars, pipeVars, queryVars, tailVars,
    bufVars, searchVars, cloneVars>>

Running(g) == goroutines[g].at <= Len(goroutines[g].run)

\* the operation the goroutine performs next
NextOp(g) == goroutines[g].run[goroutines[g].at]

Does(g, op) == Running(g) /\ NextOp(g)[1] = op

\* the mutexes the goroutine holds
Held(g) == {m \in Mutexes : mutexes[m].writer = g \/ g \in mutexes[m].readers}

Free(m) == mutexes[m].writer = 0 /\ mutexes[m].readers = {}

\* another goroutine is inside m.Lock(), waiting for the mutex
WriterWaits(g, m) ==
    \E h \in Goroutines \ {g} : Does(h, "Lock") /\ NextOp(h)[2] = m /\ ~Free(m)

\* m.RLock() returns: no writer holds the mutex and none waits for it
MayRLock(g, m) == mutexes[m].writer = 0 /\ ~WriterWaits(g, m)

Advance(g) == goroutines' = [goroutines EXCEPT ![g].at = @ + 1, ![g].waiting = FALSE]

Return(g) ==
    goroutines' = [goroutines EXCEPT ![g].at = Len(goroutines[g].run) + 1,
                                     ![g].waiting = FALSE]

\* a goroutine that finished, or a new one, runs a function
Call ==
    \E g \in Goroutines, fn \in Functions :
        /\ ~Running(g)
        /\ goroutines' = [goroutines EXCEPT ![g] = [run |-> fn, at |-> 1, waiting |-> FALSE]]
        /\ UNCHANGED <<mutexes, chanLen, consuming, cancelled, lockOthers>>

Lock ==
    \E g \in Goroutines :
        /\ Does(g, "Lock")
        /\ Free(NextOp(g)[2])
        /\ mutexes' = [mutexes EXCEPT ![NextOp(g)[2]].writer = g]
        /\ Advance(g)
        /\ UNCHANGED <<chanLen, consuming, cancelled, lockOthers>>

Unlock ==
    \E g \in Goroutines :
        /\ Does(g, "Unlock")
        /\ mutexes' = [mutexes EXCEPT ![NextOp(g)[2]].writer = 0]
        /\ Advance(g)
        /\ UNCHANGED <<chanLen, consuming, cancelled, lockOthers>>

RLock ==
    \E g \in Goroutines :
        /\ Does(g, "RLock")
        /\ MayRLock(g, NextOp(g)[2])
        /\ mutexes' = [mutexes EXCEPT ![NextOp(g)[2]].readers = @ \cup {g}]
        /\ Advance(g)
        /\ UNCHANGED <<chanLen, consuming, cancelled, lockOthers>>

RUnlock ==
    \E g \in Goroutines :
        /\ Does(g, "RUnlock")
        /\ mutexes' = [mutexes EXCEPT ![NextOp(g)[2]].readers = @ \ {g}]
        /\ Advance(g)
        /\ UNCHANGED <<chanLen, consuming, cancelled, lockOthers>>

\* ft.cancel()
Cancel ==
    \E g \in Goroutines :
        /\ Does(g, "Cancel")
        /\ cancelled' = TRUE
        /\ Advance(g)
        /\ UNCHANGED <<mutexes, chanLen, consuming, lockOthers>>

HasRoom(c) == chanLen[c] < ChanCap

\* select { case ch <- entry: ...; case <-ctx.Done(): return; default: ... }
\* (Ship, worker, handleIngest)
SendNow ==
    \E g \in Goroutines :
        /\ Does(g, "Send")
        /\ \/ /\ HasRoom(NextOp(g)[2])
              /\ chanLen' = [chanLen EXCEPT ![NextOp(g)[2]] = @ + 1]
              /\ Advance(g)
           \/ /\ cancelled
              /\ Return(g)
              /\ UNCHANGED chanLen
           \/ /\ ~HasRoom(NextOp(g)[2])
              /\ ~cancelled
              /\ Advance(g)
              /\ UNCHANGED chanLen
        /\ UNCHANGED <<mutexes, consuming, cancelled, lockOthers>>

\* sendBatch: the first select, and the second one that its default enters
SendWait ==
    \E g \in Goroutines :
        /\ Does(g, "SendWait")
        /\ \/ /\ HasRoom(NextOp(g)[2])
              /\ chanLen' = [chanLen EXCEPT ![NextOp(g)[2]] = @ + 1]
              /\ Advance(g)
           \/ /\ cancelled
              /\ Advance(g)
              /\ UNCHANGED chanLen
           \/ /\ ~HasRoom(NextOp(g)[2])
              /\ ~cancelled
              /\ ~goroutines[g].waiting
              /\ goroutines' = [goroutines EXCEPT ![g].waiting = TRUE]
              /\ UNCHANGED chanLen
        /\ UNCHANGED <<mutexes, consuming, cancelled, lockOthers>>

\* sendBatch: time.After fires, the line is dropped
SendTimeout ==
    \E g \in Goroutines :
        /\ Does(g, "SendWait")
        /\ goroutines[g].waiting
        /\ Advance(g)
        /\ UNCHANGED <<mutexes, chanLen, consuming, cancelled, lockOthers>>

\* the consumer of a channel takes an entry
Receive ==
    \E c \in Channels :
        /\ consuming
        /\ chanLen[c] > 0
        /\ chanLen' = [chanLen EXCEPT ![c] = @ - 1]
        /\ UNCHANGED <<goroutines, mutexes, consuming, cancelled, lockOthers>>

\* the consumers stop receiving
ConsumerStops ==
    /\ consuming
    /\ consuming' = FALSE
    /\ UNCHANGED <<goroutines, mutexes, chanLen, cancelled, lockOthers>>

LockNext ==
    \/ Call
    \/ Lock
    \/ Unlock
    \/ RLock
    \/ RUnlock
    \/ Cancel
    \/ SendNow
    \/ SendWait
    \/ SendTimeout
    \/ Receive
    \/ ConsumerStops

\* the goroutine is inside a channel send
AtSend(g) == Does(g, "Send") \/ Does(g, "SendWait")

\* the goroutine's next operation can complete in this state
CanStep(g) ==
    /\ Running(g)
    /\ Does(g, "Lock") => Free(NextOp(g)[2])
    /\ Does(g, "RLock") => MayRLock(g, NextOp(g)[2])
    /\ (Does(g, "SendWait") /\ goroutines[g].waiting) =>
           (HasRoom(NextOp(g)[2]) \/ cancelled \/ ENABLED SendTimeout)

Blocked(g) == Running(g) /\ ~CanStep(g)

\* the goroutines whose step the goroutine waits for: the holders of the
\* mutex, or for RLock of a mutex no writer holds the writers waiting for it
Blockers(g) ==
    LET m == NextOp(g)[2] IN
    IF Does(g, "RLock") /\ mutexes[m].writer = 0
    THEN {h \in Goroutines \ {g} : Does(h, "Lock") /\ NextOp(h)[2] = m}
    ELSE {h \in Goroutines : m \in Held(h)}

\* the goroutines that can go on, at once or after n others went on
RECURSIVE CanGoOn(_)
CanGoOn(n) ==
    IF n = 0 THEN {g \in Goroutines : ~Blocked(g)}
    ELSE LET before == CanGoOn(n - 1)
         IN  before \cup {g \in Goroutines \ before : Blockers(g) \subseteq before}

\* C36: a goroutine inside a channel send holds no mutex, also when the
\* consumer has stopped receiving and the channel is full; and no state is
\* a deadlock: a goroutine that cannot go on waits for a mutex, and the
\* goroutines it waits for can go on, at once or after those they wait for.
C36_NoLockAcrossSendNoDeadlock ==
    \A g \in Goroutines :
        /\ AtSend(g) => Held(g) = {}
        /\ Blocked(g) =>
               /\ Does(g, "Lock") \/ Does(g, "RLock")
               /\ g \in CanGoOn(NumGoroutines)

\* the consumer has stopped, sendBatch waits on the full channel, and the
\* other goroutine holds a mutex
C36_Witness ==
    /\ ~consuming
    /\ \E g \in Goroutines :
          /\ Does(g, "SendWait")
          /\ goroutines[g].waiting
          /\ ~HasRoom(NextOp(g)[2])
          /\ \E h \in Goroutines \ {g} : Held(h) # {}

\* a goroutine waits for a mutex that another one holds
SomeoneWaitsForAMutex == \E g \in Goroutines : Blocked(g)

LockIdle == LockInit

(***************************************************************************)
(* STOP  (Pipeline.Stop, FileTailer.Stop, Shipper.Close)                   *)
(*                                                                         *)
(* A program builds one of the three components, uses it and stops it;     *)
(* the other two stay as constructed.  The goroutines are scheduled        *)
(* fairly: one that stays able to take a step takes it, a sleep ends, and  *)
(* a select whose ctx.Done case stays ready ends up choosing it.           *)
(***************************************************************************)

\* the program uses the shipper only
ShipperProgram == PipelineIdle /\ TailerIdle /\ ShipperNext

\* the program uses the pipeline only
PipelineProgram == ShipperIdle /\ TailerIdle /\ PipelineNext

\* one process of the tailer: AddFile, Start, the reader, the writer of the
\* file, the consumer of the lines, Stop
TailerStopNext ==
    \/ TailerAddFile
    \/ TailerStart
    \/ TailOpen
    \/ TailRead
    \/ TailTimer
    \/ TailCancelled
    \/ SendLine
    \/ SendCancelled
    \/ SendDrop
    \/ TailConsume
    \/ WriterAppend
    \/ StopCancel
    \/ StopReturn

\* the program uses the tailer only
TailerProgram == ShipperIdle /\ PipelineIdle /\ TailerStopNext

StopNext ==
    \/ ShipperProgram
    \/ PipelineProgram
    \/ TailerProgram

StopFairness ==
    /\ WF_vars(ProcessDone)
    /\ WF_vars(SelectEndpoint)
    /\ WF_vars(SendOk \/ SendFail)
    /\ WF_vars(Wake)
    /\ WF_vars(AdvanceTime)
    /\ WF_vars(CloseReturn)
    /\ WF_vars(WorkerExit)
    /\ WF_vars(WorkerSend \/ WorkerCancelled)
    /\ WF_vars(TailOpen)
    /\ WF_vars(TailCancelled)
    /\ WF_vars(SendLine \/ SendCancelled)
    /\ WF_vars(StopReturn)

\* every goroutine the component started has returned
ShipperTasksExited == task.pc = "exited"

WorkersExited == \A w \in Workers : workers[w].pc \in {"off", "exited"}

ReadersExited == \A r \in Readers : tail[r].pc \in {"none", "done"}

\* C26: once Close has cancelled the shipper's context, processBatches exits
\* and Close returns; once Pipeline.Stop has cancelled, every worker exits
\* (which is all that Stop waits for); once FileTailer.Stop has cancelled,
\* every tailFile goroutine exits and Stop returns.  Full channels, absent
\* consumers and failing endpoints are among the behaviours.
C26_StopTerminates ==
    /\ (closePc = "wait") ~> (closePc = "returned" /\ ShipperTasksExited)
    /\ pipeCtxDone ~> WorkersExited
    /\ (ft.pc = "stopping") ~> (ft.pc = "stopped" /\ ReadersExited)

\* Close has returned although every endpoint refused: the batch left at
\* Close was sent, failed and was given up
C26_Witness ==
    /\ closePc = "returned"
    /\ ShipperTasksExited
    /\ up = {}
    /\ shipLog.residual # <<>>
    /\ shipLog.gaveUp > 0

\* the workers have exited with the outbound channel full and one of them
\* cancelled in its send
PipelineStoppedFull ==
    /\ pipeCtxDone
    /\ WorkersExited
    /\ Len(pipelineOutput) = PipelineCap
    /\ pipeLog.consumed > Len(pipeLog.emitted) + pipeStats.Failed + pipeStats.Dropped

\* Stop has returned with the output channel full
TailerStoppedFull ==
    /\ ft.pc = "stopped"
    /\ ReadersExited
    /\ Len(tlOutput) = TailOutputCap
    /\ tail[1].pc = "done"

InitShipper == ShipperInit /\ StoreInit /\ ReceiverIdle /\ PipelineIdle /\ QueryIdle /\ TailerIdle /\ BufferIdle /\ SearchIdle /\ CloneIdle /\ LockIdle

InitStore == ShipperIdle /\ StoreInit /\ ReceiverIdle /\ PipelineIdle /\ QueryIdle /\ TailerIdle /\ BufferIdle /\ SearchIdle /\ CloneIdle /\ LockIdle

InitRateLimit == ShipperIdle /\ StoreInit /\ ReceiverInit /\ PipelineIdle /\ QueryIdle /\ TailerIdle /\ BufferIdle /\ SearchIdle /\ CloneIdle /\ LockIdle

InitReceiver == ShipperIdle /\ StoreInit /\ ReceiverInit /\ PipelineInit /\ QueryIdle /\ TailerIdle /\ BufferIdle /\ SearchIdle /\ CloneIdle /\ LockIdle

InitQuery == ShipperIdle /\ StoreInit /\ ReceiverIdle /\ PipelineIdle /\ QueryInit /\ TailerIdle /\ BufferIdle /\ SearchIdle /\ CloneIdle /\ LockIdle

InitTailer == ShipperIdle /\ StoreInit /\ ReceiverIdle /\ PipelineIdle /\ QueryIdle /\ TailerInit /\ BufferIdle /\ SearchIdle /\ CloneIdle /\ LockIdle

InitBuffer == ShipperIdle /\ StoreInit /\ ReceiverIdle /\ PipelineIdle /\ QueryIdle /\ TailerIdle /\ BufferInit /\ SearchIdle /\ CloneIdle /\ LockIdle

InitPipeline == ShipperIdle /\ StoreInit /\ ReceiverIdle /\ PipelineAnyConfig /\ QueryIdle /\ TailerIdle /\ BufferIdle /\ SearchIdle /\ CloneIdle /\ LockIdle

InitClone == ShipperIdle /\ StoreInit /\ ReceiverIdle /\ PipelineIdle /\ QueryIdle /\ TailerIdle /\ BufferIdle /\ SearchIdle /\ CloneInit /\ LockIdle

InitSearch == ShipperIdle /\ StoreInit /\ ReceiverIdle /\ PipelineIdle /\ QueryIdle /\ TailerIdle /\ BufferIdle /\ SearchIdle /\ CloneIdle /\ LockIdle

SpecShipper == InitShipper /\ [][ShipperNext]_vars

SpecStore == InitStore /\ [][StoreNext]_vars

SpecRateLimit == InitRateLimit /\ [][RateLimitNext]_vars

SpecReceiver == InitReceiver /\ [][ReceiverNext]_vars

SpecQuery == InitQuery /\ [][QueryNext]_vars

SpecTailer == InitTailer /\ [][TailerNext]_vars

SpecBuffer == InitBuffer /\ [][BufferNext]_vars

SpecPipeline == InitPipeline /\ [][PipelineNext]_vars

SpecSearch == InitSearch /\ [][SearchNext]_vars

SpecRange == InitSearch /\ [][RangeNext]_vars

SpecDelete == InitStore /\ [][DeleteNext]_vars

SpecSilent == InitTailer /\ [][SilentNext]_vars /\ SilentFairness

SpecReaders == InitTailer /\ [][ReadersNext]_vars

SpecDiskBuffer == InitBuffer /\ [][DiskBufferNext]_vars

SpecClone == InitClone /\ [][CloneNext]_vars

\* the shipper's endpoints all refuse or all answer
ShipperStopInit ==
    InitShipper /\ up \in {{}, Endpoints} /\ shipCfg.SuccessThreshold = 1

InitStop == ShipperStopInit \/ InitPipeline \/ InitTailer

SpecStop == InitStop /\ [][StopNext]_vars /\ StopFairness

InitCache == ShipperIdle /\ StoreInit /\ ReceiverIdle /\ PipelineIdle /\ CacheInit /\ TailerIdle /\ BufferIdle /\ SearchIdle /\ CloneIdle /\ LockIdle

SpecCache == InitCache /\ [][CacheNext]_vars

SpecReopen == InitSearch /\ [][ReopenNext]_vars

SpecAggregate == InitSearch /\ [][AggregateNext]_vars

InitLocks == ShipperIdle /\ StoreInit /\ ReceiverIdle /\ PipelineIdle /\ QueryIdle /\ TailerIdle /\ BufferIdle /\ SearchIdle /\ CloneIdle /\ LockInit

SpecLocks == InitLocks /\ [][LockNext]_vars

SpecRotate == InitTailer /\ [][RotateNext]_vars

====
